---- MODULE Spec2Model ----
(***************************************************************************)
(* A model of mcp-mail-organizer: the MailService session layer            *)
(* (services/mail-service.ts) and the MailTools dispatcher                 *)
(* (tools/mail-tools.ts).                                                  *)
(*                                                                         *)
(* The IMAP server and the SMTP transporter are the environment: every     *)
(* command the session issues either calls back with an error (a fault     *)
(* chosen by the environment) or acts on the remote mailbox state.         *)
(* Each tool call is one action: the whole handler, from the switch in the *)
(* CallToolRequestSchema handler to the returned response.                 *)
(***************************************************************************)
EXTENDS Integers, Sequences, FiniteSets, TLC

VARIABLES
  folders,      \* remote: the set of mailbox names that exist on the server
  msgs,         \* remote: msgs[m] is the set of uids stored in mailbox m
  flags,        \* remote: flags[m][u] is the flag set of message u of mailbox m
  uidNext,      \* remote: uidNext[m] is the uid the next message of m gets
  selected,     \* the mailbox open on the IMAP connection ("" when none)
  isConnected,  \* MailService.isConnected
  boxes,        \* remote: the mailbox tree in the order the server reports it
  connOpen,     \* the IMAP connection is open
  armed,        \* the events whose listener of setupImapHandlers has not fired
  call,         \* the last tool call: its name and its arguments
  log,          \* the commands the last call issued to the IMAP connection
  sent,         \* the messages the last call handed to transporter.sendMail
  response,     \* what the last call gave back to its caller
  running,      \* the MailService operations under way at once, and where each is
  queue         \* the operations whose command waits for the connection, in order

vars ==
  <<folders, msgs, flags, uidNext, selected, isConnected, boxes, connOpen, armed,
    call, log, sent, response, running, queue>>

----------------------------------------------------------------------------
(* Bounds of the model *)

\* the highest uid INBOX hands out
MaxUid == 2
\* the highest uid Archive hands out
MaxArchive == 1
\* the longest string argument of send_mail that is enumerated
MaxStrLen == 3
\* the largest mailbox list_all_emails is paged over, beyond the page size cap
MaxExtra == 2
\* the most subfolders the server reports under one mailbox
MaxSiblings == 2

(* Program constants *)

\* Math.min(args.page_size || 50, 100)
PageSizeCap == 100
\* args.page_size || 50
DefaultPageSize == 50
\* args.page || 1
DefaultPage == 1
\* args.limit || 50
DefaultLimit == 50

Mailboxes == {"INBOX", "Archive"}
DeletedFlag == "\\Deleted"
SeenFlag == "\\Seen"
FlagNames == {DeletedFlag, SeenFlag}
UIDs == 1..MaxUid

----------------------------------------------------------------------------
(* Sequences and sets *)

Range(s) == {s[i] : i \in 1..Len(s)}

Min(a, b) == IF a <= b THEN a ELSE b
Max(a, b) == IF a >= b THEN a ELSE b

\* the highest uid mailbox m hands out: the server refuses what exceeds it
Cap(m) == IF m = "INBOX" THEN MaxUid ELSE Min(MaxArchive, MaxUid)

SetMin(S) == CHOOSE x \in S : \A y \in S : x <= y

SetMax(S) == CHOOSE x \in S : \A y \in S : x >= y

\* the elements of S between lo and hi in ascending order
RECURSIVE AscendingIn(_, _, _)
AscendingIn(S, lo, hi) ==
  IF lo > hi THEN <<>>
  ELSE IF lo = hi THEN (IF lo \in S THEN <<lo>> ELSE <<>>)
  ELSE LET mid == (lo + hi) \div 2
       IN AscendingIn(S, lo, mid) \o AscendingIn(S, mid + 1, hi)

\* the elements of a finite set of integers in ascending order
Ascending(S) == IF S = {} THEN <<>> ELSE AscendingIn(S, SetMin(S), SetMax(S))

\* Math.ceil(a / b) for integers a >= 0 and b # 0 (b may be negative)
CeilDiv(a, b) ==
  IF b > 0 THEN (a + b - 1) \div b
  ELSE -(a \div (-b))

\* Array.prototype.slice(start, end) on a sequence (0-based, end exclusive,
\* negative indices count from the end)
Slice(s, start, end) ==
  LET n == Len(s)
      from == IF start < 0 THEN Max(n + start, 0) ELSE Min(start, n)
      to == IF end < 0 THEN Max(n + end, 0) ELSE Min(end, n)
  IN IF from >= to THEN <<>> ELSE SubSeq(s, from + 1, to)

----------------------------------------------------------------------------
(* JavaScript values of tool arguments. A string is a sequence of characters; *)
(* an array is a sequence of strings.                                         *)

JsUndefined == [t |-> "undefined", s |-> <<>>, n |-> 0, b |-> FALSE, a |-> <<>>]
JsNull == [t |-> "null", s |-> <<>>, n |-> 0, b |-> FALSE, a |-> <<>>]
JsStr(s) == [t |-> "string", s |-> s, n |-> 0, b |-> FALSE, a |-> <<>>]
JsNum(n) == [t |-> "number", s |-> <<>>, n |-> n, b |-> FALSE, a |-> <<>>]
JsBool(b) == [t |-> "boolean", s |-> <<>>, n |-> 0, b |-> b, a |-> <<>>]
JsArr(a) == [t |-> "array", s |-> <<>>, n |-> 0, b |-> FALSE, a |-> a]

\* typeof v
TypeOf(v) == IF v.t \in {"null", "array"} THEN "object" ELSE v.t

\* the truth value of v in a condition (!v is its negation)
Truthy(v) ==
  CASE v.t = "undefined" -> FALSE
    [] v.t = "null" -> FALSE
    [] v.t = "string" -> v.s # <<>>
    [] v.t = "number" -> v.n # 0
    [] v.t = "boolean" -> v.b
    [] OTHER -> TRUE

\* Array.isArray(v)
IsArray(v) == v.t = "array"

\* String.prototype.startsWith / endsWith with a one-character argument
StartsWith(s, ch) == Len(s) >= 1 /\ s[1] = ch
EndsWith(s, ch) == Len(s) >= 1 /\ s[Len(s)] = ch

\* String.prototype.trim
RECURSIVE TrimStart(_)
TrimStart(s) == IF Len(s) >= 1 /\ s[1] = " " THEN TrimStart(Tail(s)) ELSE s
RECURSIVE TrimEnd(_)
TrimEnd(s) ==
  IF Len(s) >= 1 /\ s[Len(s)] = " " THEN TrimEnd(SubSeq(s, 1, Len(s) - 1)) ELSE s
Trim(s) == TrimEnd(TrimStart(s))

----------------------------------------------------------------------------
(* The IMAP connection (the `imap` library object) and the server behind it *)

\* The session as a value: the remote state, the connection, and the commands
\* issued so far in the running call.
Session ==
  [folders |-> folders, msgs |-> msgs, flags |-> flags, uidNext |-> uidNext,
   selected |-> selected, isConnected |-> isConnected, boxes |-> boxes,
   open |-> connOpen, armed |-> armed, log |-> <<>>]

\* A command issued to the connection: its name, the mailbox open when it was
\* issued, the uids and the flag names, criteria
\* or destination it carries.
Cmd(name, box, uids, arg) == [cmd |-> name, box |-> box, uids |-> uids, arg |-> arg]

Issue(S, c) == [S EXCEPT !.log = Append(@, c)]

\* The outcome of a callback or of a promise: err = "" means success.
Ok(S, val) == [S |-> S, ok |-> TRUE, err |-> "", val |-> val]
Fail(S, err) == [S |-> S, ok |-> FALSE, err |-> err, val |-> <<>>]

\* The commands a fault of the environment can hit
Faults == {"connect", "openBox", "search", "fetch", "store", "expunge",
           "copy", "move", "getBoxes", "addBox", "delBox", "parse", "smtp"}

\* The listeners setupImapHandlers registers with once(): each runs for the
\* first event of its kind and is then gone.
Listeners == {"ready", "error", "end"}

\* this.imap.once('ready', () => { this.isConnected = true; })
OnReady(S) ==
  IF "ready" \in S.armed
  THEN [S EXCEPT !.isConnected = TRUE, !.armed = @ \ {"ready"}] ELSE S

\* this.imap.once('error', (err) => { ...; this.isConnected = false; })
OnError(S) ==
  IF "error" \in S.armed
  THEN [S EXCEPT !.isConnected = FALSE, !.armed = @ \ {"error"}] ELSE S

\* this.imap.once('end', () => { this.isConnected = false; })
OnEnd(S) ==
  IF "end" \in S.armed
  THEN [S EXCEPT !.isConnected = FALSE, !.armed = @ \ {"end"}] ELSE S

\* imap.connect(): the connection opens and 'ready' is emitted, or 'error' is
imap_connect(S, f) ==
  LET S1 == Issue(S, Cmd("connect", "", <<>>, <<>>))
  IN IF "connect" \in f THEN Fail(OnError([S1 EXCEPT !.open = FALSE]), "connection error")
     ELSE Ok(OnReady([S1 EXCEPT !.open = TRUE]), <<>>)

\* imap.end(): an open connection closes and 'end' is emitted; what a closed
\* one does is the library's: 'end' is emitted again or never ("end" in f)
imap_end(S, f) ==
  LET S1 == Issue(S, Cmd("end", S.selected, <<>>, <<>>))
  IN IF ~S.open /\ "end" \in f THEN Fail(S1, "no end")
     ELSE Ok(OnEnd([S1 EXCEPT !.open = FALSE, !.selected = ""]), <<>>)

\* imap.openBox(mailbox, false, cb): SELECT; a failed SELECT leaves no mailbox open
imap_openBox(S, mailbox, f) ==
  LET S1 == Issue(S, Cmd("openBox", mailbox, <<>>, <<>>))
  IN IF "openBox" \in f \/ ~S.open \/ mailbox \notin S.folders
     THEN Fail([S1 EXCEPT !.selected = ""], "cannot open mailbox")
     ELSE Ok([S1 EXCEPT !.selected = mailbox], <<>>)

\* a STORE that flips the flags: it sets those a message lacks and clears
\* those it carries
imap_addFlags_toggle(S, uids, fl, f) ==
  LET S1 == Issue(S, Cmd("addFlags", S.selected, uids, fl))
      m == S.selected
  IN IF "store" \in f \/ ~S.open \/ m = "" THEN Fail(S1, "store failed")
     ELSE Ok([S1 EXCEPT !.flags[m] =
                [u \in DOMAIN @ |->
                   IF u \in Range(uids) /\ u \in S.msgs[m]
                   THEN (@[u] \cup Range(fl)) \ (@[u] \cap Range(fl)) ELSE @[u]]],
             <<>>)

\* imap.addFlags(uids, flags, cb): UID STORE +FLAGS on the open mailbox
imap_addFlags(S, uids, fl, f) ==
  LET S1 == Issue(S, Cmd("addFlags", S.selected, uids, fl))
      m == S.selected
  IN IF "store" \in f \/ ~S.open \/ m = "" THEN Fail(S1, "store failed")
     ELSE Ok([S1 EXCEPT !.flags[m] =
                [u \in DOMAIN @ |->
                   IF u \in Range(uids) /\ u \in S.msgs[m] THEN @[u] \cup Range(fl) ELSE @[u]]],
             <<>>)

\* imap.delFlags(uids, flags, cb): UID STORE -FLAGS on the open mailbox
imap_delFlags(S, uids, fl, f) ==
  LET S1 == Issue(S, Cmd("delFlags", S.selected, uids, fl))
      m == S.selected
  IN IF "store" \in f \/ ~S.open \/ m = "" THEN Fail(S1, "store failed")
     ELSE Ok([S1 EXCEPT !.flags[m] =
                [u \in DOMAIN @ |->
                   IF u \in Range(uids) /\ u \in S.msgs[m] THEN @[u] \ Range(fl) ELSE @[u]]],
             <<>>)

\* the messages of mailbox m that carry \Deleted
Flagged(S, m) == {u \in S.msgs[m] : DeletedFlag \in S.flags[m][u]}

\* imap.expunge(cb): EXPUNGE removes every message of the open mailbox that
\* carries \Deleted
imap_expunge(S, f) ==
  LET S1 == Issue(S, Cmd("expunge", S.selected, <<>>, <<>>))
      m == S.selected
  IN IF "expunge" \in f \/ ~S.open \/ m = "" THEN Fail(S1, "expunge failed")
     ELSE Ok([S1 EXCEPT !.msgs[m] = @ \ Flagged(S, m),
                        !.flags[m] = [u \in DOMAIN @ |->
                                        IF u \in Flagged(S, m) THEN {} ELSE @[u]]],
             <<>>)

\* An EmailSummary as far as the dispatcher reads it: the uid and the flags
EmailSummary(S, m, u) == [uid |-> u, flags |-> S.flags[m][u]]

\* new Date() moved back by n days, as the day it falls on counted from today
DaysAgo(n) == 0 - n

\* the header fields and the body a search reads of message u, and the day it
\* arrived: the server holds mail of two senders and of three days
Envelope(u) ==
  [from |-> IF u % 2 = 1 THEN <<"a">> ELSE <<"b">>,
   to |-> <<"a">>,
   subject |-> IF u % 2 = 1 THEN <<"b">> ELSE <<"a">>,
   body |-> <<"a", "b">>,
   date |-> DaysAgo(u % 3)]

\* the body structure of message u holds an attachment part: the server holds
\* mail with and without one
HasAttachment(u) == u % 2 = 0

\* v occurs in h
Contains(h, v) == \E i \in 0..(Len(h) - Len(v)) : SubSeq(h, i + 1, i + Len(v)) = v

\* one search criterion: 'UNSEEN', 'ALL', or [key, value]
Criterion(key, value) == [key |-> key, value |-> value]

\* the uids of the open mailbox one search criterion matches
Matches(S, m, crit) ==
  CASE crit.key = "UNSEEN" -> {u \in S.msgs[m] : SeenFlag \notin S.flags[m][u]}
    [] crit.key = "FROM" -> {u \in S.msgs[m] : Contains(Envelope(u).from, crit.value.s)}
    [] crit.key = "TO" -> {u \in S.msgs[m] : Contains(Envelope(u).to, crit.value.s)}
    [] crit.key = "SUBJECT" -> {u \in S.msgs[m] : Contains(Envelope(u).subject, crit.value.s)}
    [] crit.key = "BODY" -> {u \in S.msgs[m] : Contains(Envelope(u).body, crit.value.s)}
    [] crit.key = "SINCE" -> {u \in S.msgs[m] : Envelope(u).date >= crit.value.n}
    [] crit.key = "BEFORE" -> {u \in S.msgs[m] : Envelope(u).date < crit.value.n}
    [] OTHER -> S.msgs[m]

\* imap.search(criteria, cb): the uids matching every criterion, ascending
imap_search(S, criteria, f) ==
  LET S1 == Issue(S, Cmd("search", S.selected, <<>>, criteria))
      m == S.selected
  IN IF "search" \in f \/ ~S.open \/ m = "" THEN Fail(S1, "search failed")
     ELSE Ok(S1, Ascending({u \in S.msgs[m] :
                              \A i \in 1..Len(criteria) : u \in Matches(S, m, criteria[i])}))

\* imap.fetch(uids, ...): one 'message' per uid found, then 'end', or 'error'
imap_fetch(S, uids, f) ==
  LET S1 == Issue(S, Cmd("fetch", S.selected, uids, <<>>))
      m == S.selected
  IN IF "fetch" \in f \/ ~S.open \/ m = "" THEN Fail(S1, "fetch failed")
     ELSE Ok(S1, [i \in 1..Len(SelectSeq(uids, LAMBDA u : u \in S.msgs[m])) |->
                    EmailSummary(S, m, SelectSeq(uids, LAMBDA u : u \in S.msgs[m])[i])])

\* the uids the server gives to n messages appended to mailbox d
NewUids(S, d, n) == S.uidNext[d] .. (S.uidNext[d] + n - 1)

\* the given uids that name a message of mailbox m, ascending
Present(S, m, uids) == Ascending(Range(uids) \cap S.msgs[m])

\* the server appends copies of the given messages of the open mailbox to d;
\* it refuses when d does not exist or has no room left
Appended(S, m, d, uids) ==
  LET src == Present(S, m, uids)
      new == NewUids(S, d, Len(src))
  IN [S EXCEPT !.msgs[d] = @ \cup new,
               !.flags[d] = [u \in DOMAIN @ |->
                               IF u \in new THEN S.flags[m][src[u - S.uidNext[d] + 1]]
                               ELSE @[u]],
               !.uidNext[d] = @ + Len(src)]

HasRoom(S, m, d, uids) ==
  S.uidNext[d] + Len(Present(S, m, uids)) - 1 <= Cap(d)

\* imap.copy(uids, destination, cb): UID COPY
imap_copy(S, uids, d, f) ==
  LET S1 == Issue(S, Cmd("copy", S.selected, uids, <<d>>))
      m == S.selected
  IN IF "copy" \in f \/ ~S.open \/ m = "" \/ d \notin S.folders \/ ~HasRoom(S, m, d, uids)
     THEN Fail(S1, "copy failed")
     ELSE Ok(Appended(S1, m, d, uids), <<>>)

\* imap.move(uids, destination, cb): UID MOVE, which a server may not support;
\* it removes from the open mailbox the messages it moved
imap_move(S, uids, d, f) ==
  LET S1 == Issue(S, Cmd("move", S.selected, uids, <<d>>))
      m == S.selected
      gone == Range(uids) \cap S.msgs[m]
  IN IF "move" \in f \/ ~S.open \/ m = "" \/ d \notin S.folders \/ d = m \/ ~HasRoom(S, m, d, uids)
     THEN Fail(S1, "move failed")
     ELSE Ok([Appended(S1, m, d, uids) EXCEPT
                !.msgs[m] = @ \ gone,
                !.flags[m] = [u \in DOMAIN @ |-> IF u \in gone THEN {} ELSE @[u]]],
             <<>>)

\* A mailbox as getBoxes reports it: boxes[name] = { delimiter, children }
Box(name, delimiter, children) ==
  [name |-> name, delimiter |-> delimiter, children |-> children]

\* the mailboxes of the server without nesting, in the order it reports them
BoxOrder == <<Box("INBOX", "/", <<>>), Box("Archive", "/", <<>>)>>

\* imap.getBoxes(cb): the tree of the mailboxes that exist
imap_getBoxes(S, f) ==
  LET S1 == Issue(S, Cmd("getBoxes", S.selected, <<>>, <<>>))
  IN IF "getBoxes" \in f \/ ~S.open THEN Fail(S1, "list failed")
     ELSE Ok(S1, SelectSeq(S.boxes, LAMBDA b : b.name \in S.folders))

\* imap.addBox(name, cb): CREATE
imap_addBox(S, name, f) ==
  LET S1 == Issue(S, Cmd("addBox", S.selected, <<>>, <<name>>))
  IN IF "addBox" \in f \/ ~S.open \/ name \notin Mailboxes \/ name \in S.folders
     THEN Fail(S1, "create failed")
     ELSE Ok([S1 EXCEPT !.folders = @ \cup {name}], <<>>)

\* imap.delBox(name, cb): DELETE removes the mailbox and the messages in it
imap_delBox(S, name, f) ==
  LET S1 == Issue(S, Cmd("delBox", S.selected, <<>>, <<name>>))
  IN IF "delBox" \in f \/ ~S.open \/ name \notin S.folders \/ name = "INBOX"
     THEN Fail(S1, "delete failed")
     ELSE Ok([S1 EXCEPT !.folders = @ \ {name},
                        !.msgs[name] = {},
                        !.flags[name] = [u \in DOMAIN @ |-> {}],
                        !.uidNext[name] = 1,
                        !.selected = IF @ = name THEN "" ELSE @],
             <<>>)

----------------------------------------------------------------------------
(* MailService: the session layer. Every method takes the session S and the  *)
(* set f of commands the environment makes fail, and gives the outcome of its *)
(* promise with the session it leaves behind.                                 *)

\* MailService.connect: a no-op when isConnected, else imap.connect()
MailService_connect(S, f) ==
  IF S.isConnected THEN Ok(S, <<>>)
  ELSE LET c == imap_connect(S, f)
       IN IF c.ok THEN Ok([c.S EXCEPT !.isConnected = TRUE], <<>>) ELSE c

\* MailService.disconnect: a no-op when not isConnected, else imap.end() and
\* wait for 'end'
MailService_disconnect(S, f) ==
  IF ~S.isConnected THEN Ok(S, <<>>) @@ [settled |-> TRUE]
  ELSE LET e == imap_end(S, f)
       IN e @@ [settled |-> e.ok]

\* the names of mailboxes that are array indices ("2024"), with their value
IndexKeys == {"2024", "2025"}
KeyValue(name) == IF name = "2024" THEN 2024 ELSE 2025

\* for (const key in obj): the keys that are array indices in ascending
\* numeric order, then the other keys in the order they were created
ForIn(obj) ==
  LET idx == {i \in 1..Len(obj) : obj[i].name \in IndexKeys}
      vals == Ascending({KeyValue(obj[i].name) : i \in idx})
      at(v) == CHOOSE i \in idx : KeyValue(obj[i].name) = v
  IN [k \in 1..Len(vals) |-> obj[at(vals[k])]]
       \o SelectSeq(obj, LAMBDA b : b.name \notin IndexKeys)

\* extractBoxNames(obj, prefix): each key under its prefix, then its children
RECURSIVE extractBoxNames(_, _)
RECURSIVE ExtractKeys(_, _)
ExtractKeys(keys, prefix) ==
  IF keys = <<>> THEN <<>>
  ELSE LET b == Head(keys)
           fullName == IF prefix # "" THEN prefix \o b.delimiter \o b.name ELSE b.name
       IN <<fullName>>
            \o (IF b.children # <<>> THEN extractBoxNames(b.children, fullName) ELSE <<>>)
            \o ExtractKeys(Tail(keys), prefix)

extractBoxNames(obj, prefix) == ExtractKeys(ForIn(obj), prefix)

\* MailService.listMailboxes
MailService_listMailboxes(S, f) ==
  LET c == MailService_connect(S, f)
  IN IF ~c.ok THEN c ELSE
     LET r == imap_getBoxes(c.S, f)
     IN IF ~r.ok THEN r ELSE Ok(r.S, extractBoxNames(r.val, ""))

\* MailService.createMailbox
MailService_createMailbox(S, name, f) ==
  LET c == MailService_connect(S, f)
  IN IF ~c.ok THEN c ELSE imap_addBox(c.S, name, f)

\* MailService.deleteMailbox
MailService_deleteMailbox(S, name, f) ==
  LET c == MailService_connect(S, f)
  IN IF ~c.ok THEN c ELSE imap_delBox(c.S, name, f)

\* criteria[k]: undefined when the object has no such property
Field(criteria, k) == IF k \in DOMAIN criteria THEN criteria[k] ELSE JsUndefined

\* if (criteria[k]) searchCriteria.push([key, criteria[k]])
PushIf(criteria, k, key) ==
  IF Truthy(Field(criteria, k)) THEN <<Criterion(key, Field(criteria, k))>> ELSE <<>>

\* if (criteria[k]) { date = now - criteria[k] days; push([key, date]) }
PushDateIf(criteria, k, key) ==
  IF Truthy(Field(criteria, k))
  THEN <<Criterion(key, JsNum(DaysAgo(Field(criteria, k).n)))>>
  ELSE <<>>

\* if (searchCriteria.length === 0) searchCriteria.push('ALL')
OrAll(searchCriteria) ==
  IF Len(searchCriteria) = 0 THEN <<Criterion("ALL", JsUndefined)>> ELSE searchCriteria

\* the criteria list searchEmails builds from a SearchCriteria
SearchCriteriaOf(criteria) ==
  OrAll((IF criteria.unreadOnly THEN <<Criterion("UNSEEN", JsUndefined)>> ELSE <<>>)
          \o PushIf(criteria, "from", "FROM")
          \o PushIf(criteria, "to", "TO")
          \o PushIf(criteria, "subject", "SUBJECT")
          \o PushIf(criteria, "body", "BODY")
          \o PushDateIf(criteria, "sinceDays", "SINCE")
          \o PushDateIf(criteria, "beforeDays", "BEFORE"))

\* MailService.searchEmails: criteria.mailbox || 'INBOX', open, search, and
\* fetch when the search found a uid. criteria.limit is not read.
MailService_searchEmails(S, criteria, f) ==
  LET mailbox == IF criteria.mailbox # "" THEN criteria.mailbox ELSE "INBOX"
      c == MailService_connect(S, f)
  IN IF ~c.ok THEN c ELSE
     LET o == imap_openBox(c.S, mailbox, f)
     IN IF ~o.ok THEN o ELSE
        LET r == imap_search(o.S, SearchCriteriaOf(criteria), f)
        IN IF ~r.ok THEN r
           ELSE IF Len(r.val) = 0 THEN Ok(r.S, <<>>)
           ELSE imap_fetch(r.S, r.val, f)

\* MailService.deleteEmails: open, addFlags \Deleted, expunge
MailService_deleteEmails(S, mailbox, uids, f) ==
  LET c == MailService_connect(S, f)
  IN IF ~c.ok THEN c ELSE
     LET o == imap_openBox(c.S, mailbox, f)
     IN IF ~o.ok THEN o ELSE
        LET a == imap_addFlags(o.S, uids, <<DeletedFlag>>, f)
        IN IF ~a.ok THEN a ELSE imap_expunge(a.S, f)

\* a move that gives up with the error of the native move
MoveFallback_none(mv, uids, destination, f) == mv

\* the fallback of moveEmails after the native move failed with mv: copy, then
\* addFlags \Deleted, then expunge; the first error rejects
MoveFallback(mv, uids, destination, f) ==
  LET cp == imap_copy(mv.S, uids, destination, f)
  IN IF ~cp.ok THEN cp ELSE
     LET a == imap_addFlags(cp.S, uids, <<DeletedFlag>>, f)
     IN IF ~a.ok THEN a ELSE imap_expunge(a.S, f)

\* an expunge after the move whose error rejects
AfterMove_strict(S, f) == imap_expunge(S, f)

\* after a native move that succeeded: expunge, whose error is only logged
AfterMove(S, f) == Ok(imap_expunge(S, f).S, <<>>)


\* MailService.moveEmails: open, move; when the move fails copy, addFlags
\* \Deleted and expunge; when it succeeds expunge, whose error is only logged
MailService_moveEmails(S, mailbox, uids, destination, f) ==
  LET c == MailService_connect(S, f)
  IN IF ~c.ok THEN c ELSE
     LET o == imap_openBox(c.S, mailbox, f)
     IN IF ~o.ok THEN o ELSE
        LET mv == imap_move(o.S, uids, destination, f)
        IN IF ~mv.ok THEN MoveFallback(mv, uids, destination, f)
           ELSE AfterMove(mv.S, f)

\* MailService.markSeen: open, then addFlags or delFlags \Seen
MailService_markSeen(S, mailbox, uids, seen, f) ==
  LET c == MailService_connect(S, f)
  IN IF ~c.ok THEN c ELSE
     LET o == imap_openBox(c.S, mailbox, f)
     IN IF ~o.ok THEN o
        ELSE IF seen THEN imap_addFlags(o.S, uids, <<SeenFlag>>, f)
        ELSE imap_delFlags(o.S, uids, <<SeenFlag>>, f)

\* MailService.addFlags
MailService_addFlags(S, mailbox, uids, fl, f) ==
  LET c == MailService_connect(S, f)
  IN IF ~c.ok THEN c ELSE
     LET o == imap_openBox(c.S, mailbox, f)
     IN IF ~o.ok THEN o ELSE imap_addFlags(o.S, uids, fl, f)

\* MailService.removeFlags
MailService_removeFlags(S, mailbox, uids, fl, f) ==
  LET c == MailService_connect(S, f)
  IN IF ~c.ok THEN c ELSE
     LET o == imap_openBox(c.S, mailbox, f)
     IN IF ~o.ok THEN o ELSE imap_delFlags(o.S, uids, fl, f)

\* MailService.getEmailDetails: open, fetch the one uid. The promise settles
\* with the parsed message, with simpleParser's error or with the command's
\* error; when the fetch ends without a message nothing settles it
\* (settled = FALSE).
MailService_getEmailDetails(S, mailbox, uid, f) ==
  LET c == MailService_connect(S, f)
  IN IF ~c.ok THEN c @@ [settled |-> TRUE] ELSE
     LET o == imap_openBox(c.S, mailbox, f)
     IN IF ~o.ok THEN o @@ [settled |-> TRUE] ELSE
        LET r == imap_fetch(o.S, <<uid>>, f)
        IN IF ~r.ok THEN r @@ [settled |-> TRUE]
           ELSE IF Len(r.val) = 0 THEN r @@ [settled |-> FALSE]
           ELSE IF "parse" \in f THEN Fail(r.S, "parse error") @@ [settled |-> TRUE]
           ELSE r @@ [settled |-> TRUE]

----------------------------------------------------------------------------
(* MailTools.validateSendMailParams *)

ValidationError(field, message, receivedType, receivedValue) ==
  [field |-> field, message |-> message,
   receivedType |-> receivedType, receivedValue |-> receivedValue]

\* if (!args.to || typeof args.to !== 'string') ... else if (args.to.trim() === '')
ToRequiredErrors(args) ==
  IF ~Truthy(args.to) \/ TypeOf(args.to) # "string"
  THEN <<ValidationError("to", "Recipient email address is required and must be a string",
                         TypeOf(args.to), <<args.to>>)>>
  ELSE IF Trim(args.to.s) = <<>>
  THEN <<ValidationError("to", "Recipient email address cannot be empty",
                         "string", <<args.to>>)>>
  ELSE <<>>

\* if (Array.isArray(args.to))
ToArrayErrors(args) ==
  IF IsArray(args.to)
  THEN <<ValidationError("to", "Multiple recipients not supported. Use single email address only.",
                         "array", <<args.to>>)>>
  ELSE <<>>

\* a validator without the check for serialized arrays
ToArrayLikeErrors_none(args) == <<>>

\* if (typeof args.to === 'string' && args.to.startsWith('[') && args.to.endsWith(']'))
ToArrayLikeErrors(args) ==
  IF TypeOf(args.to) = "string" /\ StartsWith(args.to.s, "[") /\ EndsWith(args.to.s, "]")
  THEN <<ValidationError("to", "Array format detected but not supported. Please send to one recipient at a time.",
                         "string (array-like)", <<args.to>>)>>
  ELSE <<>>

\* if (!args.subject || typeof args.subject !== 'string')
SubjectErrors(args) ==
  IF ~Truthy(args.subject) \/ TypeOf(args.subject) # "string"
  THEN <<ValidationError("subject", "Subject is required and must be a string",
                         TypeOf(args.subject), <<args.subject>>)>>
  ELSE <<>>

\* a validator without the content check
ContentErrors_none(args) == <<>>

\* if (!args.text && !args.html)
ContentErrors(args) ==
  IF ~Truthy(args.text) /\ ~Truthy(args.html)
  THEN <<ValidationError("content", "Either text or html content is required",
                         "undefined", <<args.text, args.html>>)>>
  ELSE <<>>

\* the errors array after all five checks
CollectErrors(args) ==
  ToRequiredErrors(args) \o ToArrayErrors(args) \o ToArrayLikeErrors(args)
    \o SubjectErrors(args) \o ContentErrors(args)

validateSendMailParams(args) ==
  LET errors == CollectErrors(args)
  IN IF Len(errors) > 0
     THEN [isValid |-> FALSE, errors |-> errors]
     ELSE [isValid |-> TRUE, errors |-> <<>>, params |-> args]

----------------------------------------------------------------------------
(* MailService.sendMail and the SMTP transporter *)

\* config.smtp.auth.user
ConfigUser == JsStr(<<"u">>)

\* { from: this.config.smtp.auth.user, ...options }: a property of options
\* replaces the one written before the spread
MailMessage(options) ==
  [from |-> IF options.from # JsUndefined THEN options.from ELSE ConfigUser,
   to |-> options.to, cc |-> options.cc, bcc |-> options.bcc,
   subject |-> options.subject, text |-> options.text, html |-> options.html]

\* transporter.sendMail(message): resolves with the info of the delivery, or
\* rejects with an Error or with a value that is no Error; a transporter that
\* resolves with nothing makes the read of info.messageId raise a TypeError
transporter_sendMail(message, f) ==
  IF "smtp" \in f THEN [thrown |-> TRUE, error |-> "smtp error", messageId |-> ""]
  ELSE IF "reject" \in f THEN [thrown |-> TRUE, error |-> "rejected", messageId |-> ""]
  ELSE IF "noInfo" \in f THEN [thrown |-> TRUE, error |-> "TypeError", messageId |-> ""]
  ELSE [thrown |-> FALSE, error |-> "", messageId |-> "id"]

\* a sendMail without its try: what the transporter throws leaves the method
SendResult_uncaught(t) ==
  [raised |-> t.thrown, success |-> ~t.thrown, messageId |-> t.messageId, error |-> t.error]

\* the try and catch of sendMail: { success: true, messageId: info.messageId }
\* or { success: false, error: error.message or String(error) }
SendResult(t) ==
  IF t.thrown
  THEN [raised |-> FALSE, success |-> FALSE, messageId |-> "", error |-> t.error]
  ELSE [raised |-> FALSE, success |-> TRUE, messageId |-> t.messageId, error |-> ""]

\* MailService.sendMail: hands the message to transporter.sendMail and turns
\* what it throws into a failure result
MailService_sendMail(options, f) ==
  SendResult(transporter_sendMail(MailMessage(options), f))
    @@ [sent |-> <<MailMessage(options)>>]

----------------------------------------------------------------------------
(* MailTools: the dispatcher. Every handler gives the session it leaves      *)
(* behind, the response and the messages handed to the transporter.          *)

\* { content: [{ type: 'text', text }] }
Text(t) == [kind |-> "result", content |-> <<[type |-> "text", text |-> t]>>]
\* an error that leaves the handler
Thrown(message) == [kind |-> "thrown", content |-> <<>>, error |-> message]
\* the awaited promise never settles: the handler gives nothing back
Pending == [kind |-> "pending", content |-> <<>>]
NoResponse == [kind |-> "none", content |-> <<>>]

\* a catch block that throws the error on
ErrorText_rethrow(prefix, message) == Thrown(message)

\* the catch block of a handler: `${prefix}: ${error.message}`
ErrorText(prefix, message) == Text([tag |-> prefix, message |-> message])

Out(S, resp) == [S |-> S, response |-> resp, sent |-> <<>>]

\* args.mailbox || 'INBOX'
OrInbox(mailbox) == IF mailbox # "" THEN mailbox ELSE "INBOX"

\* the faults of a call whose uids argument is missing: the library refuses a
\* store, copy or move without uids
WithUids(uids, f) == IF uids.given THEN f ELSE f \cup {"store", "copy", "move"}

MailTools_listMailboxes(S, f) ==
  LET r == MailService_listMailboxes(S, f)
  IN IF r.ok
     THEN Out(r.S, Text([tag |-> "Found mailboxes", count |-> Len(r.val), list |-> r.val]))
     ELSE Out(r.S, ErrorText("Error listing mailboxes", r.err))

MailTools_createMailbox(S, args, f) ==
  LET r == MailService_createMailbox(S, args.name, f)
  IN IF r.ok
     THEN Out(r.S, Text([tag |-> "Mailbox created successfully", name |-> args.name]))
     ELSE Out(r.S, ErrorText("Error creating mailbox", r.err))

Uids(emails) == [i \in 1..Len(emails) |-> emails[i].uid]

MailTools_searchEmails(S, args, f) ==
  LET r == MailService_searchEmails(S, args, f)
      limit == IF args.limit # 0 THEN args.limit ELSE DefaultLimit
      limited == Slice(r.val, 0, limit)
  IN IF ~r.ok THEN Out(r.S, ErrorText("Error searching emails", r.err))
     ELSE IF Len(r.val) = 0
     THEN Out(r.S, Text([tag |-> "No emails found matching the criteria"]))
     ELSE Out(r.S, Text([tag |-> "Found emails", count |-> Len(r.val),
                         showing |-> Len(limited), shown |-> Uids(limited)]))

MailTools_getEmail(S, args, f) ==
  LET r == MailService_getEmailDetails(S, OrInbox(args.mailbox), args.uid, f)
  IN IF ~r.settled THEN Out(r.S, Pending)
     ELSE IF ~r.ok THEN Out(r.S, ErrorText("Error getting email", r.err))
     ELSE Out(r.S, Text([tag |-> "UID", uid |-> r.val[1].uid, flagSet |-> r.val[1].flags]))

MailTools_moveEmails(S, args, f) ==
  LET r == MailService_moveEmails(S, OrInbox(args.mailbox), args.uids.v,
                                  args.destination, WithUids(args.uids, f))
  IN IF ~r.ok THEN Out(r.S, ErrorText("Error moving emails", r.err))
     ELSE IF ~args.uids.given THEN Out(r.S, ErrorText("Error moving emails", "TypeError"))
     ELSE Out(r.S, Text([tag |-> "Moved", count |-> Len(args.uids.v),
                         destination |-> args.destination]))

\* a preview test that reads the argument's truth value: if (args.preview)
IsPreview_truthy(args) == Truthy(args.preview)

\* if (args.preview !== false)
IsPreview(args) == args.preview # JsBool(FALSE)

MailTools_deleteEmails(S, args, f) ==
  IF IsPreview(args)
  THEN IF ~args.uids.given THEN Out(S, ErrorText("Error deleting emails", "TypeError"))
       ELSE Out(S, Text([tag |-> "PREVIEW: Would delete", count |-> Len(args.uids.v),
                         uids |-> args.uids.v]))
  ELSE LET r == MailService_deleteEmails(S, OrInbox(args.mailbox), args.uids.v,
                                         WithUids(args.uids, f))
       IN IF ~r.ok THEN Out(r.S, ErrorText("Error deleting emails", r.err))
          ELSE IF ~args.uids.given THEN Out(r.S, ErrorText("Error deleting emails", "TypeError"))
          ELSE Out(r.S, Text([tag |-> "Deleted", count |-> Len(args.uids.v)]))

MailTools_markSeen(S, args, f) ==
  LET r == MailService_markSeen(S, OrInbox(args.mailbox), args.uids.v, args.seen,
                                WithUids(args.uids, f))
  IN IF ~r.ok THEN Out(r.S, ErrorText("Error marking emails", r.err))
     ELSE IF ~args.uids.given THEN Out(r.S, ErrorText("Error marking emails", "TypeError"))
     ELSE Out(r.S, Text([tag |-> "Marked", count |-> Len(args.uids.v), seen |-> args.seen]))

MailTools_addFlags(S, args, f) ==
  LET r == MailService_addFlags(S, OrInbox(args.mailbox), args.uids.v, args.flags,
                                WithUids(args.uids, f))
  IN IF ~r.ok THEN Out(r.S, ErrorText("Error adding flags", r.err))
     ELSE IF ~args.uids.given THEN Out(r.S, ErrorText("Error adding flags", "TypeError"))
     ELSE Out(r.S, Text([tag |-> "Added flags", flags |-> args.flags,
                         count |-> Len(args.uids.v)]))

MailTools_removeFlags(S, args, f) ==
  LET r == MailService_removeFlags(S, OrInbox(args.mailbox), args.uids.v, args.flags,
                                   WithUids(args.uids, f))
  IN IF ~r.ok THEN Out(r.S, ErrorText("Error removing flags", r.err))
     ELSE IF ~args.uids.given THEN Out(r.S, ErrorText("Error removing flags", "TypeError"))
     ELSE Out(r.S, Text([tag |-> "Removed flags", flags |-> args.flags,
                         count |-> Len(args.uids.v)]))

\* a delete_mailbox that takes every probed folder for empty
ProbeNonEmpty_never(emails) == FALSE

\* if (emails.length > 0): the probe found the mailbox non-empty
ProbeNonEmpty(emails) == Len(emails) > 0

\* the probe of delete_mailbox: searchEmails({ mailbox: args.name, limit: 1 })
Probe(name) == [mailbox |-> name, unreadOnly |-> FALSE, limit |-> 1]

MailTools_deleteMailbox(S, args, f) ==
  LET probe == MailService_searchEmails(S, Probe(args.name), f)
  IN IF ~probe.ok THEN Out(probe.S, ErrorText("Error deleting mailbox", probe.err))
     ELSE IF ProbeNonEmpty(probe.val)
     THEN Out(probe.S, Text([tag |-> "Cannot delete mailbox: mailbox is not empty",
                             name |-> args.name, count |-> Len(probe.val)]))
     ELSE LET r == MailService_deleteMailbox(probe.S, args.name, f)
          IN IF ~r.ok THEN Out(r.S, ErrorText("Error deleting mailbox", r.err))
             ELSE Out(r.S, Text([tag |-> "Mailbox deleted successfully", name |-> args.name]))

\* Math.min(args.page_size || 50, 100)
EffectivePageSize(args) ==
  Min(IF args.page_size # 0 THEN args.page_size ELSE DefaultPageSize, PageSizeCap)

\* args.page || 1
EffectivePage(args) == IF args.page # 0 THEN args.page ELSE DefaultPage

\* limit: 10000 in the search of list_all_emails
ListAllLimit == 10000

MailTools_listAllEmails(S, args, f) ==
  LET mailbox == OrInbox(args.mailbox)
      page == EffectivePage(args)
      page_size == EffectivePageSize(args)
      r == MailService_searchEmails(S, [mailbox |-> mailbox, unreadOnly |-> FALSE,
                                        limit |-> ListAllLimit], f)
      totalEmails == Len(r.val)
      totalPages == CeilDiv(totalEmails, page_size)
      startIndex == (page - 1) * page_size
      endIndex == Min(startIndex + page_size, totalEmails)
      pageEmails == Slice(r.val, startIndex, endIndex)
  IN IF ~r.ok THEN Out(r.S, ErrorText("Error listing emails", r.err))
     ELSE IF Len(pageEmails) = 0
     THEN Out(r.S, Text([tag |-> "No emails found on page", page |-> page,
                         mailbox |-> mailbox]))
     ELSE Out(r.S, Text([tag |-> "Page", page |-> page, totalPages |-> totalPages,
                         first |-> startIndex + 1, last |-> endIndex,
                         total |-> totalEmails, mailbox |-> mailbox,
                         shown |-> Uids(pageEmails)]))

\* the names of the switch of the CallToolRequestSchema handler
ToolNames ==
  {"list_mailboxes", "create_mailbox", "search_emails", "get_email", "move_emails",
   "delete_emails", "mark_seen", "add_flags", "remove_flags", "delete_mailbox",
   "list_all_emails", "send_mail"}

\* the text a handler's catch block puts before the error's message
CatchPrefix(tool) ==
  CASE tool = "list_mailboxes" -> "Error listing mailboxes"
    [] tool = "create_mailbox" -> "Error creating mailbox"
    [] tool = "search_emails" -> "Error searching emails"
    [] tool = "get_email" -> "Error getting email"
    [] tool = "move_emails" -> "Error moving emails"
    [] tool = "delete_emails" -> "Error deleting emails"
    [] tool = "mark_seen" -> "Error marking emails"
    [] tool = "add_flags" -> "Error adding flags"
    [] tool = "remove_flags" -> "Error removing flags"
    [] tool = "delete_mailbox" -> "Error deleting mailbox"
    [] tool = "list_all_emails" -> "Error listing emails"
    [] OTHER -> "Error sending email"

\* a handler called with args undefined: reading a property of args raises a
\* TypeError inside the handler's try; searchEmails hands args to the service,
\* which connects before it reads criteria.mailbox
MailTools_withoutArguments(S, tool, f) ==
  IF tool = "search_emails"
  THEN LET c == MailService_connect(S, f)
       IN IF ~c.ok THEN Out(c.S, ErrorText(CatchPrefix(tool), c.err))
          ELSE Out(c.S, ErrorText(CatchPrefix(tool), "TypeError"))
  ELSE Out(S, ErrorText(CatchPrefix(tool), "TypeError"))

MailTools_sendMail(args, f) ==
  LET validation == validateSendMailParams(args)
  IN IF ~validation.isValid
     THEN [response |-> Text([tag |-> "SEND_MAIL VALIDATION ERRORS",
                              errors |-> validation.errors]),
           sent |-> <<>>]
     ELSE LET result == MailService_sendMail(validation.params, f)
          IN IF result.raised
             THEN [response |-> ErrorText("Error sending email", result.error),
                   sent |-> result.sent]
             ELSE IF result.success
             THEN [response |-> Text([tag |-> "Email sent successfully!",
                                      messageId |-> result.messageId]),
                   sent |-> result.sent]
             ELSE [response |-> Text([tag |-> "Failed to send email",
                                      message |-> result.error]),
                   sent |-> result.sent]

\* switch (name) of the CallToolRequestSchema handler: the handler of the
\* tool, called with the arguments of the request (given = FALSE: without any)
Dispatch(S, name, given, args, f) ==
  CASE name = "list_mailboxes" -> MailTools_listMailboxes(S, f)
    [] name \in ToolNames /\ ~given -> MailTools_withoutArguments(S, name, f)
    [] name = "create_mailbox" -> MailTools_createMailbox(S, args, f)
    [] name = "search_emails" -> MailTools_searchEmails(S, args, f)
    [] name = "get_email" -> MailTools_getEmail(S, args, f)
    [] name = "move_emails" -> MailTools_moveEmails(S, args, f)
    [] name = "delete_emails" -> MailTools_deleteEmails(S, args, f)
    [] name = "mark_seen" -> MailTools_markSeen(S, args, f)
    [] name = "add_flags" -> MailTools_addFlags(S, args, f)
    [] name = "remove_flags" -> MailTools_removeFlags(S, args, f)
    [] name = "delete_mailbox" -> MailTools_deleteMailbox(S, args, f)
    [] name = "list_all_emails" -> MailTools_listAllEmails(S, args, f)
    [] name = "send_mail" -> [S |-> S] @@ MailTools_sendMail(args, f)
    [] OTHER -> Out(S, Thrown("Unknown tool"))

----------------------------------------------------------------------------
(* The arguments tool calls are made with *)

\* a uids argument: an array of uids (one uid, or the first k uids), or missing
NoUids == [given |-> FALSE, v |-> <<>>]
UidLists ==
  {[given |-> TRUE, v |-> Ascending(X)] : X \in {{u} : u \in UIDs} \cup {1..k : k \in UIDs}}
UidArgs == UidLists \cup {NoUids}

\* a mailbox argument: "" stands for a missing one
MailboxArgs == {"", "Archive"}

\* a preview argument of delete_emails
PreviewArgs == {JsUndefined, JsBool(TRUE), JsBool(FALSE), JsNum(0)}

DeleteArgs ==
  {[mailbox |-> m, uids |-> u, preview |-> p] :
     m \in MailboxArgs, u \in UidArgs, p \in PreviewArgs}

FlagArgs ==
  {[mailbox |-> m, uids |-> u, flags |-> <<fl>>] :
     m \in MailboxArgs, u \in UidArgs, fl \in FlagNames}

SeenArgs ==
  {[mailbox |-> m, uids |-> u, seen |-> b] :
     m \in {""}, u \in UidArgs, b \in BOOLEAN}

MoveArgs ==
  {[mailbox |-> m, uids |-> u, destination |-> d] :
     m \in MailboxArgs, u \in UidArgs, d \in {"INBOX", "Archive"}}

GetArgs == {[mailbox |-> m, uid |-> u] : m \in MailboxArgs, u \in UIDs}

\* limit: 0 stands for a missing one
SearchArgs ==
  {[mailbox |-> m, unreadOnly |-> b, limit |-> l] :
     m \in MailboxArgs, b \in BOOLEAN, l \in {0, 1}}

\* a name argument of create_mailbox and delete_mailbox
NameArgs == {[name |-> n] : n \in {"INBOX", "Archive"}}

\* page and page_size: 0 stands for a missing one
PageArgs ==
  {[mailbox |-> m, page |-> p, page_size |-> z] :
     m \in {""}, p \in {0, 1, 2}, z \in {0, 1, -1}}

\* the characters of the strings send_mail is called with: a letter of an
\* address, the brackets of a serialized array, a blank and the comma that
\* separates the addresses of a list
Alphabet == {"a", "[", "]", " ", ","}

\* the strings of at most n characters
Strings(n) == UNION {[1..k -> Alphabet] : k \in 0..n}

ToValues ==
  {JsStr(s) : s \in Strings(MaxStrLen)}
    \cup {JsUndefined, JsNull, JsNum(5),
          JsArr(<<>>), JsArr(<< <<"a">> >>), JsArr(<< <<"a">>, <<"a">> >>)}

SubjectValues == {JsUndefined, JsStr(<<>>), JsStr(<<"a">>), JsNum(5)}

BodyValues == {JsUndefined, JsStr(<<>>), JsStr(<<"a">>)}

\* an argument the schema does not declare, missing or an address
ExtraValues == {JsUndefined, JsStr(<<"a">>)}

SendArgsOver(tos) ==
  {[to |-> t, subject |-> sj, text |-> tx, html |-> h, cc |-> c, bcc |-> b, from |-> fr] :
     t \in tos, sj \in SubjectValues, tx \in BodyValues, h \in BodyValues,
     c \in ExtraValues, b \in ExtraValues, fr \in ExtraValues}

SendArgs == SendArgsOver(ToValues)

\* the send_mail calls made among the calls of the other tools
FewSendArgs ==
  {a \in SendArgsOver({JsStr(<<"a">>), JsArr(<< <<"a">> >>)}) :
     /\ a.subject \in {JsUndefined, JsStr(<<"a">>)}
     /\ a.text \in {JsUndefined, JsStr(<<"a">>)}
     /\ a.html = JsUndefined /\ a.cc = JsUndefined /\ a.bcc = JsUndefined
     /\ a.from = JsUndefined}

\* the send_mail calls with one recipient, a subject and a body
OneRecipient ==
  {a \in SendArgsOver({JsStr(<<"a">>)}) :
     /\ a.subject = JsStr(<<"a">>) /\ a.text \in {JsUndefined, JsStr(<<"a">>)}
     /\ a.text = JsUndefined => a.html # JsUndefined}

\* the calls among A that name uid 1 or no uid at all
OneUid == [given |-> TRUE, v |-> <<1>>]
FewUids(A) == {a \in A : a.uids \in {OneUid, NoUids}}

\* one failing command, or none
OneOf(names) == {{}} \cup {{x} : x \in names}

StoreFaults == OneOf({"connect", "openBox", "store", "expunge"})

\* the commands of markSeen, addFlags and removeFlags: they do not expunge
FlagFaults == OneOf({"connect", "openBox", "store"})

\* a server without MOVE fails the move; the fallback may fail at each step
MoveFaults ==
  OneOf({"connect", "openBox", "expunge"})
    \cup {{"move"} \cup g : g \in OneOf({"copy", "store", "expunge"})}

----------------------------------------------------------------------------
(* The state machine *)

\* the arguments of a request that carries none
NoArgs == [mailbox |-> ""]

NoCall == [tool |-> "", given |-> FALSE, args |-> NoArgs]

\* the MailService operations the host may have under way at once
Operations == {1, 2}

\* no operation under way
NoOperation == [name |-> "", mailbox |-> "", uids |-> <<>>, arg |-> <<>>, at |-> "none"]
NoneRunning == [p \in Operations |-> NoOperation]

\* new MailService(config): nothing connected, nothing called; the server
\* holds its mailboxes, empty
Init ==
  /\ folders = Mailboxes
  /\ msgs = [m \in Mailboxes |-> {}]
  /\ flags = [m \in Mailboxes |-> [u \in UIDs |-> {}]]
  /\ uidNext = [m \in Mailboxes |-> 1]
  /\ selected = ""
  /\ isConnected = FALSE
  /\ boxes = BoxOrder
  /\ connOpen = FALSE
  /\ armed = Listeners
  /\ call = NoCall
  /\ log = <<>>
  /\ sent = <<>>
  /\ response = NoResponse
  /\ running = NoneRunning
  /\ queue = <<>>

\* the session a handler leaves behind becomes the state
Commit(S) ==
  /\ folders' = S.folders
  /\ msgs' = S.msgs
  /\ flags' = S.flags
  /\ uidNext' = S.uidNext
  /\ selected' = S.selected
  /\ isConnected' = S.isConnected
  /\ boxes' = S.boxes
  /\ connOpen' = S.open
  /\ armed' = S.armed
  /\ log' = S.log

\* no request is being answered
Idle == call = NoCall

\* one request to the CallToolRequestSchema handler, answered: the host
\* delivers one tool call at a time
Handle(tool, args, out) ==
  /\ Idle
  /\ call' = [tool |-> tool, given |-> args # NoArgs, args |-> args]
  /\ Commit(out.S)
  /\ sent' = out.sent
  /\ response' = out.response
  /\ UNCHANGED <<running, queue>>

\* the response (or the error) has left for the caller; the dispatcher keeps
\* nothing of the call. A call whose promise never settles is never answered.
Reply ==
  /\ ~Idle
  /\ response.kind # "pending"
  /\ call' = NoCall
  /\ log' = <<>>
  /\ sent' = <<>>
  /\ response' = NoResponse
  /\ UNCHANGED <<folders, msgs, flags, uidNext, selected, isConnected, boxes, connOpen, armed,
                  running, queue>>

\* the server receives a message into mailbox m
Deliver(m) ==
  /\ Idle
  /\ m \in folders
  /\ uidNext[m] <= Cap(m)
  /\ msgs' = [msgs EXCEPT ![m] = @ \cup {uidNext[m]}]
  /\ uidNext' = [uidNext EXCEPT ![m] = @ + 1]
  /\ UNCHANGED <<folders, flags, selected, isConnected, boxes, connOpen, armed,
                  call, log, sent, response, running, queue>>

\* case 'list_mailboxes'
ListMailboxes(f) ==
  Handle("list_mailboxes", NoArgs, MailTools_listMailboxes(Session, f))

\* case 'create_mailbox'
CreateMailbox(args, f) ==
  Handle("create_mailbox", args, MailTools_createMailbox(Session, args, f))

\* case 'search_emails'
SearchEmails(args, f) ==
  Handle("search_emails", args, MailTools_searchEmails(Session, args, f))

\* case 'get_email'
GetEmail(args, f) ==
  Handle("get_email", args, MailTools_getEmail(Session, args, f))

\* case 'move_emails'
MoveEmails(args, f) ==
  Handle("move_emails", args, MailTools_moveEmails(Session, args, f))

\* case 'delete_emails'
DeleteEmails(args, f) ==
  Handle("delete_emails", args, MailTools_deleteEmails(Session, args, f))

\* case 'mark_seen'
MarkSeen(args, f) ==
  Handle("mark_seen", args, MailTools_markSeen(Session, args, f))

\* case 'add_flags'
AddFlags(args, f) ==
  Handle("add_flags", args, MailTools_addFlags(Session, args, f))

\* case 'remove_flags'
RemoveFlags(args, f) ==
  Handle("remove_flags", args, MailTools_removeFlags(Session, args, f))

\* case 'delete_mailbox'
DeleteMailbox(args, f) ==
  Handle("delete_mailbox", args, MailTools_deleteMailbox(Session, args, f))

\* case 'list_all_emails'
ListAllEmails(args, f) ==
  Handle("list_all_emails", args, MailTools_listAllEmails(Session, args, f))

\* case 'send_mail': the session is not touched
SendMail(args, f) ==
  Handle("send_mail", args, [S |-> Session] @@ MailTools_sendMail(args, f))

\* the promise of a MailService method the host program calls itself
Resolved == [kind |-> "resolved", content |-> <<>>]
Rejected(err) == [kind |-> "rejected", content |-> <<>>, error |-> err]

\* mailService.connect()
Connect(f) ==
  LET r == MailService_connect(Session, f)
  IN Handle("connect", NoArgs, Out(r.S, IF r.ok THEN Resolved ELSE Rejected(r.err)))

\* mailService.disconnect(): the promise stays pending when no 'end' comes
Disconnect(f) ==
  LET r == MailService_disconnect(Session, f)
  IN Handle("disconnect", NoArgs, Out(r.S, IF r.settled THEN Resolved ELSE Pending))

\* the open connection breaks: the library emits 'error'
ConnError ==
  /\ Idle
  /\ connOpen
  /\ Commit(OnError([Session EXCEPT !.open = FALSE, !.selected = ""]))
  /\ UNCHANGED <<call, sent, response, running, queue>>

\* the server closes the open connection: the library emits 'end'
ConnEnd ==
  /\ Idle
  /\ connOpen
  /\ Commit(OnEnd([Session EXCEPT !.open = FALSE, !.selected = ""]))
  /\ UNCHANGED <<call, sent, response, running, queue>>

\* default: throw new Error(`Unknown tool: ${name}`)
UnknownTool(name) ==
  Handle(name, NoArgs, Out(Session, Thrown("Unknown tool")))

\* a request for a tool that takes arguments, made without any: `args` is
\* undefined and the handler's first read of it raises a TypeError in its try
WithoutArguments(tool, f) ==
  Handle(tool, NoArgs, MailTools_withoutArguments(Session, tool, f))

\* all twelve tools, on a server that receives mail; the calls that take uids
\* name uid 1 or none
Next ==
  \/ \E m \in Mailboxes : Deliver(m)
  \/ Reply
  \/ Idle /\ \E f \in OneOf({"connect", "getBoxes"}) : ListMailboxes(f)
  \/ Idle /\ \E args \in NameArgs, f \in OneOf({"connect", "addBox"}) :
               CreateMailbox(args, f)
  \/ Idle /\ \E args \in SearchArgs, f \in OneOf({"connect", "openBox", "search", "fetch"}) :
               SearchEmails(args, f)
  \/ Idle /\ \E args \in GetArgs, f \in OneOf({"connect", "openBox", "fetch", "parse"}) :
               GetEmail(args, f)
  \/ Idle /\ \E args \in FewUids(MoveArgs), f \in MoveFaults : MoveEmails(args, f)
  \/ Idle /\ \E args \in FewUids(DeleteArgs), f \in StoreFaults : DeleteEmails(args, f)
  \/ Idle /\ \E args \in FewUids(SeenArgs), f \in FlagFaults : MarkSeen(args, f)
  \/ Idle /\ \E args \in FewUids(FlagArgs), f \in FlagFaults : AddFlags(args, f)
  \/ Idle /\ \E args \in FewUids(FlagArgs), f \in FlagFaults : RemoveFlags(args, f)
  \/ Idle /\ \E args \in NameArgs,
                f \in OneOf({"connect", "openBox", "search", "fetch", "delBox"}) :
               DeleteMailbox(args, f)
  \/ Idle /\ \E args \in PageArgs, f \in OneOf({"connect", "openBox", "search", "fetch"}) :
               ListAllEmails(args, f)
  \/ Idle /\ \E args \in FewSendArgs, f \in OneOf({"smtp"}) : SendMail(args, f)
  \/ Idle /\ UnknownTool("no_such_tool")
  \/ Idle /\ \E tool \in ToolNames \ {"list_mailboxes"}, f \in OneOf({"connect"}) :
               WithoutArguments(tool, f)

Spec == Init /\ [][Next]_vars

\* delete_emails with every list of uids, on an INBOX that receives mail and
\* whose messages are flagged
NextDelete ==
  \/ Deliver("INBOX")
  \/ Reply
  \/ Idle /\ \E args \in FlagArgs, f \in OneOf({"store"}) : AddFlags(args, f)
  \/ Idle /\ \E args \in DeleteArgs, f \in StoreFaults : DeleteEmails(args, f)

SpecDelete == Init /\ [][NextDelete]_vars

\* create_mailbox and delete_mailbox on mailboxes that receive mail
NextBox ==
  \/ \E m \in Mailboxes : Deliver(m)
  \/ Reply
  \/ Idle /\ \E args \in NameArgs, f \in OneOf({"connect", "addBox"}) :
               CreateMailbox(args, f)
  \/ Idle /\ \E args \in NameArgs,
                f \in OneOf({"connect", "openBox", "search", "fetch", "delBox"}) :
               DeleteMailbox(args, f)

SpecBox == Init /\ [][NextBox]_vars

\* send_mail alone, over every argument bag
NextSend ==
  \/ Idle /\ \E args \in SendArgs, f \in OneOf({"smtp"}) : SendMail(args, f)
  \/ Reply

SpecSend == Init /\ [][NextSend]_vars

\* the sizes of the mailbox list_all_emails is paged over
PageTotals == 0..3 \cup {30} \cup (PageSizeCap - 1)..(PageSizeCap + MaxExtra)

\* a server whose INBOX holds n messages
InitPage ==
  \E n \in PageTotals :
    /\ folders = Mailboxes
    /\ msgs = [m \in Mailboxes |-> IF m = "INBOX" THEN 1..n ELSE {}]
    /\ flags = [m \in Mailboxes |-> [u \in 1..n |-> {}]]
    /\ uidNext = [m \in Mailboxes |-> IF m = "INBOX" THEN n + 1 ELSE 1]
    /\ selected = ""
    /\ isConnected = FALSE
    /\ boxes = BoxOrder
    /\ connOpen = FALSE
    /\ armed = Listeners
    /\ call = NoCall
    /\ log = <<>>
    /\ sent = <<>>
    /\ response = NoResponse
    /\ running = NoneRunning
    /\ queue = <<>>

\* page and page_size over the values around the defaults and the cap
ManyPageArgs ==
  {[mailbox |-> "", page |-> p, page_size |-> z] :
     p \in -1..3,
     z \in -2..2 \cup {DefaultPageSize, PageSizeCap, PageSizeCap + 1, 5 * PageSizeCap}}

\* list_all_emails alone, over mailboxes larger than a page
NextPage ==
  \/ Idle /\ \E args \in ManyPageArgs, f \in OneOf({"connect", "search"}) :
               ListAllEmails(args, f)
  \/ Reply

SpecPage == InitPage /\ [][NextPage]_vars

\* limit over the values around the size of a mailbox: 0 stands for a missing one
ManySearchArgs ==
  {[mailbox |-> m, unreadOnly |-> b, limit |-> l] :
     m \in MailboxArgs, b \in BOOLEAN, l \in -1..(MaxUid + 1)}

\* search_emails over a mailbox that receives mail and whose mail is read
NextSearch ==
  \/ \E m \in Mailboxes : Deliver(m)
  \/ Reply
  \/ Idle /\ \E args \in SeenArgs, f \in OneOf({"store"}) : MarkSeen(args, f)
  \/ Idle /\ \E args \in ManySearchArgs, f \in OneOf({"connect", "openBox", "search", "fetch"}) :
               SearchEmails(args, f)

SpecSearch == Init /\ [][NextSearch]_vars

\* move_emails called with and without a preview argument
ManyMoveArgs ==
  {[mailbox |-> m, uids |-> u, destination |-> d, preview |-> p] :
     m \in MailboxArgs, u \in UidArgs, d \in {"INBOX", "Archive"},
     p \in {JsUndefined, JsBool(FALSE)}}

\* add_flags that marks messages of INBOX as deleted
MarkDeleted == {a \in FlagArgs : a.mailbox = "" /\ a.uids.given /\ a.flags = <<DeletedFlag>>}

\* move_emails between an INBOX that receives mail, whose messages are flagged,
\* and Archive
NextMove ==
  \/ Deliver("INBOX")
  \/ Reply
  \/ Idle /\ \E args \in MarkDeleted : AddFlags(args, {})
  \/ Idle /\ \E args \in ManyMoveArgs, f \in MoveFaults : MoveEmails(args, f)

SpecMove == Init /\ [][NextMove]_vars

\* get_email on mailboxes that receive mail and lose it again
NextGet ==
  \/ \E m \in Mailboxes : Deliver(m)
  \/ Reply
  \/ Idle /\ \E args \in DeleteArgs, f \in OneOf({"expunge"}) : DeleteEmails(args, f)
  \/ Idle /\ \E args \in GetArgs, f \in OneOf({"connect", "openBox", "fetch", "parse"}) :
               GetEmail(args, f)

\* every step that can be taken is taken in the end: the host keeps calling
\* and a settled promise is answered
SpecGet == Init /\ [][NextGet]_vars /\ WF_vars(NextGet)

\* the hierarchy delimiters a server reports
Delimiters == {"/", "."}

\* the names of subfolders: two that are array indices and one that is not
ChildNames == IndexKeys \cup {"Sent"}

SeqsUpTo(S, n) == UNION {[1..k -> S] : k \in 0..n}
DistinctNames(q) == \A i, j \in 1..Len(q) : i # j => q[i].name # q[j].name

\* a subfolder, with or without a subfolder of its own
ChildBoxes(d) ==
  {Box(n, d, g) : n \in ChildNames, g \in {<<>>, <<Box("Q1", d, <<>>)>>}}

\* the subfolders of one mailbox, in each order the server may report them
ChildLists(d) == {q \in SeqsUpTo(ChildBoxes(d), MaxSiblings) : DistinctNames(q)}

\* the trees getBoxes may report: INBOX, Archive with its subfolders, or both
\* in either order
BoxTrees ==
  UNION {{<<Box("INBOX", d, <<>>)>>}
           \cup UNION {{<<Box("Archive", d, c)>>,
                        <<Box("INBOX", d, <<>>), Box("Archive", d, c)>>,
                        <<Box("Archive", d, c), Box("INBOX", d, <<>>)>>} :
                         c \in ChildLists(d)} :
         d \in Delimiters}

\* a new session on a server that holds one of the trees
InitBoxes ==
  \E t \in BoxTrees :
    /\ folders = {t[i].name : i \in 1..Len(t)}
    /\ msgs = [m \in Mailboxes |-> {}]
    /\ flags = [m \in Mailboxes |-> [u \in UIDs |-> {}]]
    /\ uidNext = [m \in Mailboxes |-> 1]
    /\ selected = ""
    /\ isConnected = FALSE
    /\ boxes = t
    /\ connOpen = FALSE
    /\ armed = Listeners
    /\ call = NoCall
    /\ log = <<>>
    /\ sent = <<>>
    /\ response = NoResponse
    /\ running = NoneRunning
    /\ queue = <<>>

\* list_mailboxes on each tree
NextBoxes ==
  \/ Reply
  \/ Idle /\ \E f \in OneOf({"connect", "getBoxes"}) : ListMailboxes(f)

SpecBoxes == InitBoxes /\ [][NextBoxes]_vars

\* a text filter: missing, empty or one character
TextFilters == {JsUndefined, JsStr(<<>>), JsStr(<<"a">>)}

\* a window in days: missing, today or yesterday
DayFilters == {JsUndefined, JsNum(0), JsNum(1)}

CriteriaArgs ==
  {[mailbox |-> "", unreadOnly |-> b, limit |-> 0, from |-> fr, to |-> t,
    subject |-> sj, body |-> bd, sinceDays |-> sd, beforeDays |-> bf] :
     b \in BOOLEAN, fr \in TextFilters, t \in {JsUndefined, JsStr(<<"a">>)},
     sj \in {JsUndefined, JsStr(<<"b">>)}, bd \in {JsUndefined, JsStr(<<"a", "b">>)},
     sd \in DayFilters, bf \in DayFilters}

\* search_emails with every combination of filters, on an INBOX that receives
\* mail and whose mail is read
NextCriteria ==
  \/ Deliver("INBOX")
  \/ Reply
  \/ Idle /\ \E args \in FewUids(SeenArgs) : MarkSeen(args, {})
  \/ Idle /\ \E args \in CriteriaArgs, f \in OneOf({"search"}) : SearchEmails(args, f)

SpecCriteria == Init /\ [][NextCriteria]_vars

\* search_emails asked for mail with an attachment, without one, or either
AttachmentArgs ==
  {[mailbox |-> "", unreadOnly |-> b, limit |-> 0, from |-> fr, hasAttachments |-> h] :
     b \in BOOLEAN, fr \in {JsUndefined, JsStr(<<"a">>), JsStr(<<"b">>)},
     h \in {JsUndefined, JsBool(TRUE), JsBool(FALSE)}}

\* search_emails with the attachment filter, on an INBOX that receives mail
\* and whose mail is read
NextAttachment ==
  \/ Deliver("INBOX")
  \/ Reply
  \/ Idle /\ \E args \in FewUids(SeenArgs) : MarkSeen(args, {})
  \/ Idle /\ \E args \in AttachmentArgs, f \in OneOf({"search"}) : SearchEmails(args, f)

SpecAttachment == Init /\ [][NextAttachment]_vars

\* what the transporter does with a message: delivers it, rejects with an
\* Error, rejects with another value, or resolves with nothing
TransportFaults == OneOf({"smtp", "reject", "noInfo"})

\* send_mail against each behaviour of the transporter
NextTransport ==
  \/ Idle /\ \E args \in FewSendArgs \cup OneRecipient, f \in TransportFaults : SendMail(args, f)
  \/ Reply

SpecTransport == Init /\ [][NextTransport]_vars

\* a session that is connected and disconnected by the host program, whose
\* connection breaks or is closed by the server, and that is used in between
NextConn ==
  \/ Deliver("INBOX")
  \/ Reply
  \/ ConnError
  \/ ConnEnd
  \/ Idle /\ \E f \in OneOf({"connect"}) : Connect(f)
  \/ Idle /\ \E f \in OneOf({"end"}) : Disconnect(f)
  \/ Idle /\ ListMailboxes({})
  \/ Idle /\ \E args \in SearchArgs : SearchEmails(args, {})

SpecConn == Init /\ [][NextConn]_vars

\* the tools that change the server or send mail, on a server and a
\* transporter that work, but for a server without MOVE
NextTwice ==
  \/ \E m \in Mailboxes : Deliver(m)
  \/ Reply
  \/ Idle /\ \E args \in NameArgs : CreateMailbox(args, {})
  \/ Idle /\ \E args \in NameArgs : DeleteMailbox(args, {})
  \/ Idle /\ \E args \in FewUids(MoveArgs), f \in OneOf({"move"}) : MoveEmails(args, f)
  \/ Idle /\ \E args \in FewUids(DeleteArgs) : DeleteEmails(args, {})
  \/ Idle /\ \E args \in FewUids(SeenArgs) : MarkSeen(args, {})
  \/ Idle /\ \E args \in FewUids(FlagArgs) : AddFlags(args, {})
  \/ Idle /\ \E args \in FewUids(FlagArgs) : RemoveFlags(args, {})
  \/ Idle /\ \E args \in FewSendArgs : SendMail(args, {})

SpecTwice == Init /\ [][NextTwice]_vars

----------------------------------------------------------------------------
(* What the claims read *)

remote == <<folders, msgs, flags, uidNext>>

\* the response is one text block
IsText(r) ==
  r.kind = "result" /\ Len(r.content) = 1 /\ r.content[1].type = "text"

\* the tag of the text of a response ("" when it has no text)
TagOf(r) == IF IsText(r) THEN r.content[1].text.tag ELSE ""

\* the names of the commands of a log, in order
CmdNames(l) == [i \in 1..Len(l) |-> l[i].cmd]

\* the commands of a log after its connect, if it has one
AfterConnect(l) == IF Len(l) >= 1 /\ l[1].cmd = "connect" THEN Tail(l) ELSE l

----------------------------------------------------------------------------
(* C1: delete_emails with preview omitted, true, or anything but the literal *)
(* false issues no command to the mail session and leaves the remote mailbox *)
(* and the connection as they were; given uids, its response reports their   *)
(* number and the uids themselves.                                           *)
C1_PreviewIssuesNothing ==
  [][(call'.tool = "delete_emails" /\ call'.given
        /\ call'.args.preview # JsBool(FALSE))
       => /\ log' = <<>>
          /\ remote' = remote
          /\ selected' = selected /\ isConnected' = isConnected
          /\ call'.args.uids.given =>
               response' = Text([tag |-> "PREVIEW: Would delete",
                                 count |-> Len(call'.args.uids.v),
                                 uids |-> call'.args.uids.v])]_vars

\* a preview, with preview omitted, of messages that are in the mailbox
C1_Witness ==
  /\ call.tool = "delete_emails" /\ call.given
  /\ call.args.preview = JsUndefined
  /\ call.args.uids.given
  /\ Range(call.args.uids.v) \subseteq msgs[OrInbox(call.args.mailbox)]
  /\ TagOf(response) = "PREVIEW: Would delete"

(* C2: delete_emails with preview: false that succeeds has opened the named  *)
(* mailbox, marked the given uids \Deleted and expunged, in that order, and  *)
(* the messages removed from the mailbox are exactly the given ones (those   *)
(* of the given uids that name a message), whatever flags other messages     *)
(* carry.                                                                    *)
C2_DeleteExactlyGiven ==
  [][(call'.tool = "delete_emails" /\ call'.given
        /\ call'.args.preview = JsBool(FALSE) /\ TagOf(response') = "Deleted")
       => LET m == OrInbox(call'.args.mailbox)
              given == call'.args.uids.v
          IN /\ AfterConnect(log') =
                  <<Cmd("openBox", m, <<>>, <<>>),
                    Cmd("addFlags", m, given, <<DeletedFlag>>),
                    Cmd("expunge", m, <<>>, <<>>)>>
             /\ msgs[m] \ msgs'[m] = Range(given) \cap msgs[m]]_vars

----------------------------------------------------------------------------
(* send_mail: what the claims read *)

\* the errors a send_mail response lists (none when it lists none)
ErrorsOf(r) ==
  IF TagOf(r) = "SEND_MAIL VALIDATION ERRORS" THEN r.content[1].text.errors ELSE <<>>

\* the response lists an error of the given field
Cites(r, field) == \E i \in 1..Len(ErrorsOf(r)) : ErrorsOf(r)[i].field = field

\* a string that starts with "[" and ends with "]"
Bracketed(v) ==
  v.t = "string" /\ Len(v.s) >= 1 /\ Head(v.s) = "[" /\ v.s[Len(v.s)] = "]"

\* a non-empty string
NonEmptyString(v) == v.t = "string" /\ v.s # <<>>

\* the number of addresses of an address list, as the transporter reads it:
\* the parts between commas that are not blank
RECURSIVE AddressCount(_, _)
AddressCount(s, inPart) ==
  IF s = <<>> THEN 0
  ELSE IF Head(s) = "," THEN AddressCount(Tail(s), FALSE)
  ELSE IF Head(s) = " " THEN AddressCount(Tail(s), inPart)
  ELSE (IF inPart THEN 0 ELSE 1) + AddressCount(Tail(s), TRUE)

\* the number of recipient addresses of one field of a message
RECURSIVE SumAddresses(_)
SumAddresses(a) ==
  IF a = <<>> THEN 0 ELSE AddressCount(Head(a), FALSE) + SumAddresses(Tail(a))

Recipients(v) ==
  CASE v.t = "string" -> AddressCount(v.s, FALSE)
    [] v.t = "array" -> SumAddresses(v.a)
    [] OTHER -> 0

\* a string that is no serialized array and holds exactly one address (the
\* address itself is not parsed)
SingleAddress(v) == NonEmptyString(v) /\ ~Bracketed(v) /\ Recipients(v) = 1

\* a body is present: there is text in it
BodyPresent(v) == NonEmptyString(v)

SendCall == call.tool = "send_mail" /\ call.given

(* C3: send_mail whose `to` is an array, or a string that starts with "["    *)
(* and ends with "]", fails validation with an error of field "to", and      *)
(* nothing is handed to the transporter.                                      *)
C3_ArrayRecipientRejected ==
  (SendCall /\ (call.args.to.t = "array" \/ Bracketed(call.args.to)))
    => /\ TagOf(response) = "SEND_MAIL VALIDATION ERRORS"
       /\ Cites(response, "to")
       /\ sent = <<>>

\* the serialized array "[a]" with a subject and a text: only `to` is wrong
C3_Witness ==
  /\ SendCall
  /\ call.args.to = JsStr(<<"[", "a", "]">>)
  /\ call.args.subject = JsStr(<<"a">>)
  /\ call.args.text = JsStr(<<"a">>)
  /\ Cites(response, "to")
  /\ sent = <<>>

(* C4: validation reports every violated rule in one response: an error of    *)
(* the recipient rule iff `to` is not a non-empty single-address string, of   *)
(* the subject rule iff `subject` is not a non-empty string, of the content   *)
(* rule iff neither text nor html is present; each error carries the field,   *)
(* a message, the received type and the received value.                       *)
C4_AllViolatedRulesReported ==
  SendCall
    => /\ Cites(response, "to") <=> ~SingleAddress(call.args.to)
       /\ Cites(response, "subject") <=> ~NonEmptyString(call.args.subject)
       /\ Cites(response, "content")
            <=> (~BodyPresent(call.args.text) /\ ~BodyPresent(call.args.html))
       /\ \A i \in 1..Len(ErrorsOf(response)) :
            /\ DOMAIN ErrorsOf(response)[i]
                 = {"field", "message", "receivedType", "receivedValue"}
            /\ ErrorsOf(response)[i].message # ""

(* C5: every message handed to the transporter has a text body or an HTML     *)
(* body; a send_mail with a valid `to` and `subject` and neither text nor     *)
(* html fails validation citing the content rule and sends nothing.           *)
C5_ContentRequired ==
  /\ \A i \in 1..Len(sent) : BodyPresent(sent[i].text) \/ BodyPresent(sent[i].html)
  /\ (SendCall /\ SingleAddress(call.args.to) /\ NonEmptyString(call.args.subject)
        /\ ~BodyPresent(call.args.text) /\ ~BodyPresent(call.args.html))
       => /\ Cites(response, "content")
          /\ sent = <<>>

\* to: "a", subject: "a", no text, no html
C5_Witness ==
  /\ SendCall
  /\ call.args.to = JsStr(<<"a">>)
  /\ call.args.subject = JsStr(<<"a">>)
  /\ call.args.text = JsUndefined /\ call.args.html = JsUndefined
  /\ Cites(response, "content")
  /\ sent = <<>>

(* C6: every message send_mail hands to the transporter is addressed to       *)
(* exactly one recipient, counting its to, cc and bcc.                        *)
C6_SingleRecipientDispatched ==
  \A i \in 1..Len(sent) :
    Recipients(sent[i].to) + Recipients(sent[i].cc) + Recipients(sent[i].bcc) = 1

(* C7: every message handed to the transporter has the configured SMTP        *)
(* account as its From address, whatever the arguments.                       *)
C7_FromIsConfiguredAccount ==
  \A i \in 1..Len(sent) : sent[i].from = ConfigUser

----------------------------------------------------------------------------
(* The tool-call boundary *)

\* the call has been answered: a response was returned or an error thrown
Answered == ~Idle /\ response.kind # "pending"

C9_ProbeGuardsDelete ==
  [][(call'.tool = "delete_mailbox" /\ call'.given)
       => LET n == call'.args.name
              names == CmdNames(log')
              deletes == {i \in 1..Len(log') : names[i] = "delBox"}
          IN /\ msgs[n] # {} => deletes = {}
             /\ (msgs[n] # {} /\ TagOf(response') # "Error deleting mailbox")
                  => response' = Text([tag |-> "Cannot delete mailbox: mailbox is not empty",
                                       name |-> n, count |-> Cardinality(msgs[n])])
             /\ \A j \in deletes :
                  /\ log'[j].arg = <<n>>
                  /\ msgs[n] = {}
                  /\ \E i \in 1..(j - 1) : names[i] = "search" /\ log'[i].box = n]_vars

\* Archive holds a message: the call is refused and no DELETE is issued
C9_Witness ==
  /\ call.tool = "delete_mailbox" /\ call.given
  /\ call.args.name = "Archive"
  /\ msgs["Archive"] # {}
  /\ TagOf(response) = "Cannot delete mailbox: mailbox is not empty"
  /\ \A i \in 1..Len(log) : log[i].cmd # "delBox"

\* the page size the claim counts with: the requested one, 50 when none is
\* requested, and never more than 100
CappedPageSize(requested) ==
  IF requested = 0 THEN DefaultPageSize
  ELSE IF requested > PageSizeCap THEN PageSizeCap ELSE requested

\* ceil(total / size) for size > 0: the least k with k * size >= total
PagesOf(total, size) == CHOOSE k \in 0..total : k * size >= total /\ (k - 1) * size < total

(* C10: list_all_emails never shows more than 100 emails on a page, whatever  *)
(* the page_size requested, and reports ceil(total / effective page size) as  *)
(* its total pages; page 1 of a mailbox of 30 messages with page_size 50      *)
(* shows all 30 and reports 1 total page.                                     *)
C10_PageCappedAndCounted ==
  (call.tool = "list_all_emails" /\ call.given /\ TagOf(response) = "Page")
    => LET t == response.content[1].text
           size == CappedPageSize(call.args.page_size)
       IN /\ Len(t.shown) <= PageSizeCap
          /\ size > 0 => t.totalPages = PagesOf(t.total, size)
          /\ (t.total = 30 /\ call.args.page = 1 /\ call.args.page_size = DefaultPageSize)
               => Len(t.shown) = 30 /\ t.totalPages = 1

----------------------------------------------------------------------------
(* search_emails *)

\* what the session returns for a search of mailbox m: the uids of m, only
\* the unread ones when asked, in ascending order
Returned(m, unreadOnly) ==
  Ascending({u \in msgs[m] : unreadOnly => SeenFlag \notin flags[m][u]})

(* C11: search_emails displays the first min(N, limit) of the N emails the    *)
(* session returned, in session order, where limit is the limit argument or   *)
(* 50 when it is absent, and reports N as the found count; the limit does     *)
(* not change what the session searches or fetches.                           *)
C11_FirstLimitDisplayed ==
  [][(call'.tool = "search_emails" /\ call'.given
        /\ TagOf(response') # "Error searching emails")
       => LET args == call'.args
              found == Returned(OrInbox(args.mailbox), args.unreadOnly)
              N == Len(found)
              limit == IF args.limit = 0 THEN DefaultLimit ELSE args.limit
              k == IF N <= limit THEN N ELSE limit
          IN /\ N = 0 => TagOf(response') = "No emails found matching the criteria"
             /\ N > 0 => response' = Text([tag |-> "Found emails", count |-> N,
                                           showing |-> k, shown |-> SubSeq(found, 1, k)])
             /\ \A i \in 1..Len(log') :
                  /\ log'[i].cmd = "search"
                       => log'[i].arg = <<Criterion(IF args.unreadOnly THEN "UNSEEN" ELSE "ALL",
                                                     JsUndefined)>>
                  /\ log'[i].cmd = "fetch" => log'[i].uids = found]_vars

----------------------------------------------------------------------------
(* move_emails *)

MoveCall == call.tool = "move_emails" /\ call.given

\* the log holds a command of the given name
Issued(l, name) == \E i \in 1..Len(l) : l[i].cmd = name

\* the text move_emails answers a completed move with
MovedText(args) ==
  Text([tag |-> "Moved", count |-> Len(args.uids.v), destination |-> args.destination])

(* C12: when the native move fails, moveEmails falls back to copy to the      *)
(* destination, then mark the originals \Deleted, then expunge on the source  *)
(* folder, in that order; when the three steps succeed the operation          *)
(* succeeds, and the error of the native move is not raised.                  *)
C12_FallbackInOrder ==
  [][(call'.tool = "move_emails" /\ call'.given /\ Issued(log', "move"))
       => LET args == call'.args
              m == OrInbox(args.mailbox)
              steps == <<Cmd("copy", m, args.uids.v, <<args.destination>>),
                         Cmd("addFlags", m, args.uids.v, <<DeletedFlag>>),
                         Cmd("expunge", m, <<>>, <<>>)>>
              open == <<Cmd("openBox", m, <<>>, <<>>),
                        Cmd("move", m, args.uids.v, <<args.destination>>)>>
              failed == TagOf(response') = "Error moving emails"
          IN \/ /\ ~failed
                /\ AfterConnect(log') \in {open \o steps, open \o <<steps[3]>>}
                /\ args.uids.given => response' = MovedText(args)
             \/ /\ failed
                /\ response'.content[1].text.message # "move failed"
                /\ \E n \in 1..3 :
                     /\ AfterConnect(log') = open \o SubSeq(steps, 1, n)
                     /\ response'.content[1].text.message
                          = <<"copy failed", "store failed", "expunge failed">>[n]]_vars

\* the server refused the native move, the fallback moved uid 1 to Archive
C12_Witness ==
  /\ MoveCall
  /\ call.args.uids.v = <<1>> /\ call.args.mailbox = "" /\ call.args.destination = "Archive"
  /\ CmdNames(AfterConnect(log)) = <<"openBox", "move", "copy", "addFlags", "expunge">>
  /\ response = MovedText(call.args)
  /\ 1 \notin msgs["INBOX"] /\ msgs["Archive"] # {}

(* C13: move_emails called without an explicit confirmation does not mutate   *)
(* remote state: no message leaves the source folder or appears in the        *)
(* destination, just as with delete_emails.                                   *)
C13_MoveDefaultsToPreview ==
  [][(call'.tool = "move_emails" /\ call'.given /\ call'.args.preview # JsBool(FALSE))
       => remote' = remote]_vars

(* C20: when the native move succeeds, an expunge is then issued on the       *)
(* source folder, and a failure of that expunge does not fail the operation:  *)
(* moveEmails resolves and move_emails reports the move as done.              *)
C20_ExpungeAfterMove ==
  [][(call'.tool = "move_emails" /\ call'.given
        /\ Issued(log', "move") /\ ~Issued(log', "copy"))
       => LET args == call'.args
              m == OrInbox(args.mailbox)
          IN /\ AfterConnect(log') = <<Cmd("openBox", m, <<>>, <<>>),
                                       Cmd("move", m, args.uids.v, <<args.destination>>),
                                       Cmd("expunge", m, <<>>, <<>>)>>
             /\ response' = MovedText(args)]_vars

\* the move of uid 1 succeeded and the expunge after it failed: a message
\* that carries \Deleted is still in the source folder
C20_Witness ==
  /\ MoveCall
  /\ call.args.uids.v = <<1>> /\ call.args.mailbox = "" /\ call.args.destination = "Archive"
  /\ CmdNames(AfterConnect(log)) = <<"openBox", "move", "expunge">>
  /\ response = MovedText(call.args)
  /\ \E u \in msgs["INBOX"] : DeletedFlag \in flags["INBOX"][u]

----------------------------------------------------------------------------
(* get_email *)

GetCall == call.tool = "get_email" /\ call.given

\* the fetch of the call was issued for a uid the mailbox does not hold
FetchedNothing ==
  /\ GetCall
  /\ Issued(log, "fetch")
  /\ call.args.uid \notin msgs[OrInbox(call.args.mailbox)]
  /\ TagOf(response) # "Error getting email"

(* C14: every get_email call eventually produces a response; when the fetch   *)
(* for the given uid yields no message at all, the call completes and the     *)
(* response is the text "Email with UID <uid> not found".                     *)
C14_GetEmailCompletes ==
  /\ GetCall ~> Answered
  /\ FetchedNothing ~> (TagOf(response) = "Email with UID not found")

----------------------------------------------------------------------------
(* list_mailboxes *)

\* the tree depth-first in the order it is given: each mailbox under its
\* prefix, then its subfolders, then the mailboxes after it
RECURSIVE DepthFirst(_, _)
DepthFirst(obj, prefix) ==
  IF obj = <<>> THEN <<>>
  ELSE LET b == Head(obj)
           fullName == IF prefix # "" THEN prefix \o b.delimiter \o b.name ELSE b.name
       IN <<fullName>> \o DepthFirst(b.children, fullName) \o DepthFirst(Tail(obj), prefix)

\* {INBOX, Archive:{2024,2025}} with "/"
ExampleTree ==
  <<Box("INBOX", "/", <<>>),
    Box("Archive", "/", <<Box("2024", "/", <<>>), Box("2025", "/", <<>>)>>)>>

\* the mailboxes the server reports, as the session sees them
Reported == SelectSeq(boxes, LAMBDA b : b.name \in folders)

(* C15: the names list_mailboxes answers with are the folder tree of the      *)
(* server flattened depth-first: fully-qualified names joined with the        *)
(* delimiter the server reports, each parent immediately before its           *)
(* descendants, siblings in the order the server reports them; the tree       *)
(* {INBOX, Archive:{2024,2025}} with "/" gives INBOX, Archive, Archive/2024,   *)
(* Archive/2025.                                                              *)
C15_FlattenInServerOrder ==
  TagOf(response) = "Found mailboxes" =>
    /\ response.content[1].text.list = DepthFirst(Reported, "")
    /\ Reported = ExampleTree =>
         response.content[1].text.list
           = <<"INBOX", "Archive", "Archive/2024", "Archive/2025">>

----------------------------------------------------------------------------
(* The search predicate *)

\* the predicate of the filter under property k, when the filter is there
FilterOf(args, k, key) ==
  IF Field(args, k) = JsUndefined THEN {}
  ELSE IF key \in {"SINCE", "BEFORE"}
  THEN {Criterion(key, JsNum(DaysAgo(Field(args, k).n)))}
  ELSE {Criterion(key, Field(args, k))}

\* one predicate for each filter the criteria hold
PresentFilters(args) ==
  (IF args.unreadOnly THEN {Criterion("UNSEEN", JsUndefined)} ELSE {})
    \cup FilterOf(args, "from", "FROM") \cup FilterOf(args, "to", "TO")
    \cup FilterOf(args, "subject", "SUBJECT") \cup FilterOf(args, "body", "BODY")
    \cup FilterOf(args, "sinceDays", "SINCE") \cup FilterOf(args, "beforeDays", "BEFORE")

(* C16: the criteria searchEmails sends with its search are one predicate for *)
(* each filter the SearchCriteria hold (sender, recipient, subject, body,      *)
(* unread-only, since N days, before N days) and nothing for a filter they do  *)
(* not hold; with no filter the criteria are exactly ALL.                      *)
C16_OnePredicatePerFilter ==
  [][(call'.tool = "search_emails" /\ call'.given)
       => \A i \in 1..Len(log') :
            log'[i].cmd = "search"
              => LET present == PresentFilters(call'.args)
                 IN /\ Len(log'[i].arg) = Cardinality(Range(log'[i].arg))
                    /\ Range(log'[i].arg)
                         = (IF present = {} THEN {Criterion("ALL", JsUndefined)}
                            ELSE present)]_vars

----------------------------------------------------------------------------
(* MailService.sendMail *)

\* the call handed a message to the transporter
Transported == call.tool = "send_mail" /\ sent # <<>>

(* C17: MailService.sendMail never raises. Whatever the request and whatever  *)
(* the transporter does, it returns {success: true, messageId} or             *)
(* {success: false, error}: send_mail then answers "Email sent successfully"   *)
(* with the message id or "Failed to send email" with the error text, never    *)
(* through its own catch; an error the transporter throws is the failure       *)
(* result.                                                                     *)
C17_SendMailNeverRaises ==
  Transported =>
    /\ response.kind = "result"
    /\ TagOf(response) \in {"Email sent successfully!", "Failed to send email"}
    /\ TagOf(response) = "Email sent successfully!" => response.content[1].text.messageId = "id"
    /\ TagOf(response) = "Failed to send email"
         => response.content[1].text.message \in {"smtp error", "rejected", "TypeError"}

\* a message was handed to the transporter, which rejected it, and the call
\* was answered with the failure result
C17_Witness ==
  /\ Transported
  /\ response = Text([tag |-> "Failed to send email", message |-> "rejected"])

----------------------------------------------------------------------------
(* The connection *)

\* the calls that use the session
SessionCalls == {"list_mailboxes", "search_emails"}

(* C19: after any sequence of connect, disconnect, connection-error and        *)
(* connection-end events, a second or later error or end included, the         *)
(* connected flag is true only while the connection is open; so the next       *)
(* session operation after an error or a close connects again before it        *)
(* issues a command.                                                           *)
C19_FlagOnlyWhileOpen ==
  /\ [](isConnected => connOpen)
  /\ [][(Idle /\ ~connOpen /\ call'.tool \in SessionCalls)
          => (log' # <<>> /\ log'[1].cmd = "connect")]_vars

(* C18: connect and disconnect are idempotent in every reachable state of the  *)
(* session: connect with the connection already open attempts no connection,  *)
(* disconnect with the connection not open issues no close and returns at      *)
(* once, so a disconnect that follows a completed disconnect always returns.    *)
C18_ConnectDisconnectIdempotent ==
  [][/\ (Idle /\ connOpen /\ call'.tool = "connect")
          => (log' = <<>> /\ response' = Resolved)
     /\ (Idle /\ ~connOpen /\ call'.tool = "disconnect")
          => (log' = <<>> /\ response' = Resolved)]_vars

----------------------------------------------------------------------------
(* Calls made twice *)

\* the arguments each tool is called with
ArgsOf(tool) ==
  CASE tool = "list_mailboxes" -> {NoArgs}
    [] tool = "create_mailbox" -> NameArgs
    [] tool = "search_emails" -> SearchArgs
    [] tool = "get_email" -> GetArgs
    [] tool = "move_emails" -> FewUids(MoveArgs)
    [] tool = "delete_emails" -> FewUids(DeleteArgs)
    [] tool = "mark_seen" -> FewUids(SeenArgs)
    [] tool = "add_flags" -> FewUids(FlagArgs)
    [] tool = "remove_flags" -> FewUids(FlagArgs)
    [] tool = "delete_mailbox" -> NameArgs
    [] tool = "list_all_emails" -> PageArgs
    [] OTHER -> FewSendArgs

\* the mailboxes, messages, flags and uids of a session's server
RemoteOf(S) == <<S.folders, S.msgs, S.flags, S.uidNext>>

\* the messages a send_mail outcome delivered
Delivered(out) ==
  IF TagOf(out.response) = "Email sent successfully!" THEN out.sent ELSE <<>>

\* the call made now, and the same call made once more after it, on a server
\* and a transporter that work
Once(tool, args) == Dispatch(Session, tool, args # NoArgs, args, {})
Twice(tool, args) == Dispatch(Once(tool, args).S, tool, args # NoArgs, args, {})

\* the second call changes nothing the first has not changed
IdempotentCall(tool, args) ==
  /\ RemoteOf(Twice(tool, args).S) = RemoteOf(Once(tool, args).S)
  /\ Delivered(Twice(tool, args)) = <<>>

\* between two requests, each call of the given tools is idempotent
Idempotent(tools) ==
  Idle => \A tool \in tools : \A args \in ArgsOf(tool) : IdempotentCall(tool, args)

\* a delete_emails that deletes, or a move_emails
Mutating(c) ==
  \/ c.tool = "move_emails" /\ c.given
  \/ c.tool = "delete_emails" /\ c.given /\ c.args.preview = JsBool(FALSE)

\* the step is a delete_emails or move_emails call that succeeds and names a
\* message of its mailbox: the messages it names leave the mailbox, and a move
\* adds one copy of each to the destination
MutatesOnce ==
  (Mutating(call') /\ TagOf(response') \in {"Deleted", "Moved"}
     /\ Range(call'.args.uids.v) \cap msgs[OrInbox(call'.args.mailbox)] # {})
    => LET m == OrInbox(call'.args.mailbox)
           named == Range(call'.args.uids.v) \cap msgs[m]
       IN /\ remote' # remote
          /\ named \cap msgs'[m] = {}
          /\ call'.tool = "move_emails"
               => uidNext'[call'.args.destination]
                    = uidNext[call'.args.destination] + Cardinality(named)
          /\ call'.tool = "delete_emails" => uidNext' = uidNext

SendsEachTime ==
  Idle => \A args \in FewSendArgs :
            Delivered(Once("send_mail", args)) # <<>>
              => /\ Len(Delivered(Once("send_mail", args))) = 1
                 /\ Delivered(Twice("send_mail", args)) = Delivered(Once("send_mail", args))

----------------------------------------------------------------------------
(* move_emails: failure and frame *)

(* C22: a moveEmails call that fails leaves the remote state unchanged:        *)
(* whenever it rejects, a failure of the mark-deleted or expunge step of the   *)
(* fallback after a successful copy included, the destination holds no copy    *)
(* of the given messages and the messages of the source are unmodified.        *)
C22_FailedMoveChangesNothing ==
  [][(call'.tool = "move_emails" /\ call'.given
        /\ TagOf(response') = "Error moving emails")
       => remote' = remote]_vars

(* C23: a move_emails that succeeds removes from the source folder exactly     *)
(* the given identifiers (those that name a message of it) and nothing else,   *)
(* in the native move and in the fallback, whatever flags the other messages   *)
(* of the folder carry.                                                        *)
C23_MoveRemovesExactlyGiven ==
  [][(call'.tool = "move_emails" /\ call'.given /\ TagOf(response') = "Moved")
       => LET m == OrInbox(call'.args.mailbox)
          IN msgs[m] \ msgs'[m] = Range(call'.args.uids.v) \cap msgs[m]]_vars

----------------------------------------------------------------------------
(* Operations that overlap on the one connection.  Each MailService method  *)
(* is a chain of callbacks: every callback issues the next command.  The    *)
(* connection runs one command at a time, in the order they were issued.    *)

\* the commands of the library a method can be waiting for
Commands == {"openBox", "addFlags", "delFlags", "expunge", "move", "copy", "cleanup", "fetch"}

\* the mailbox each of the two operations names, and the other one
Named(p) == IF p = 1 THEN "INBOX" ELSE "Archive"
Other(m) == IF m = "INBOX" THEN "Archive" ELSE "INBOX"

\* the methods called at once, on uid 1 of different mailboxes: deleteEmails,
\* addFlags, removeFlags, getEmailDetails, and moveEmails to the other mailbox
Overlapping(p) ==
  {[name |-> n, mailbox |-> Named(p), uids |-> <<1>>, arg |-> <<SeenFlag>>, at |-> "openBox"] :
     n \in {"addFlags", "removeFlags"}}
    \cup {[name |-> n, mailbox |-> Named(p), uids |-> <<1>>, arg |-> <<>>, at |-> "openBox"] :
            n \in {"deleteEmails", "getEmailDetails"}}
    \cup {[name |-> "moveEmails", mailbox |-> Named(p), uids |-> <<1>>,
           arg |-> <<Other(Named(p))>>, at |-> "openBox"]}

\* the command operation o waits for, run on the connection
Run(S, o, f) ==
  IF o.at = "openBox" THEN imap_openBox(S, o.mailbox, f)
  ELSE IF o.at = "addFlags"
    THEN imap_addFlags(S, o.uids, IF o.name = "addFlags" THEN o.arg ELSE <<DeletedFlag>>, f)
  ELSE IF o.at = "delFlags" THEN imap_delFlags(S, o.uids, o.arg, f)
  ELSE IF o.at = "move" THEN imap_move(S, o.uids, o.arg[1], f)
  ELSE IF o.at = "copy" THEN imap_copy(S, o.uids, o.arg[1], f)
  ELSE IF o.at = "fetch" THEN imap_fetch(S, o.uids, f)
  ELSE imap_expunge(S, f)

\* what the callback of the command does with its outcome r: the next command
\* of the method, or the promise resolved or rejected; a fetch that ends
\* without a message leaves the promise of getEmailDetails pending
Callback(o, r) ==
  IF o.name = "moveEmails" /\ o.at = "move" THEN (IF r.ok THEN "cleanup" ELSE "copy")
  ELSE IF o.at = "cleanup" THEN "resolved"
  ELSE IF ~r.ok THEN "rejected"
  ELSE IF o.at = "openBox"
    THEN (IF o.name \in {"deleteEmails", "addFlags"} THEN "addFlags"
          ELSE IF o.name = "removeFlags" THEN "delFlags"
          ELSE IF o.name = "moveEmails" THEN "move"
          ELSE "fetch")
  ELSE IF o.at = "copy" THEN "addFlags"
  ELSE IF o.at = "addFlags" /\ o.name \in {"deleteEmails", "moveEmails"} THEN "expunge"
  ELSE IF o.at = "fetch" /\ Len(r.val) = 0 THEN "pending"
  ELSE "resolved"

\* a method is called while the session is connected (`if (this.isConnected)
\* return`): it issues openBox
Begin(p, o) ==
  /\ Idle
  /\ isConnected
  /\ running[p] = NoOperation
  /\ running' = [running EXCEPT ![p] = o]
  /\ queue' = Append(queue, p)
  /\ UNCHANGED <<folders, msgs, flags, uidNext, selected, isConnected, boxes, connOpen,
                  armed, call, log, sent, response>>

\* the connection runs the command that waited longest and calls its callback
Serve(f) ==
  /\ queue # <<>>
  /\ LET p == Head(queue)
         r == Run(Session, running[p], f)
         at == Callback(running[p], r)
     IN /\ Commit(r.S)
        /\ running' = [running EXCEPT ![p].at = at]
        /\ queue' = IF at \in Commands THEN Append(Tail(queue), p) ELSE Tail(queue)
  /\ UNCHANGED <<call, sent, response>>

\* the caller has the outcome of a settled operation
Settle(p) ==
  /\ running[p].at \in {"resolved", "rejected"}
  /\ running' = [running EXCEPT ![p] = NoOperation]
  /\ UNCHANGED <<folders, msgs, flags, uidNext, selected, isConnected, boxes, connOpen,
                  armed, call, log, sent, response, queue>>

\* a connected session on which the host has two methods under way at once
NextOverlap ==
  \/ \E m \in Mailboxes : Deliver(m)
  \/ Reply
  \/ Idle /\ running = NoneRunning /\ \E f \in OneOf({"connect"}) : Connect(f)
  \/ \E p \in Operations : \E o \in Overlapping(p) : Begin(p, o)
  \/ \E f \in OneOf({"move"}) : Serve(f)
  \/ \E p \in Operations : Settle(p)

SpecOverlap == Init /\ [][NextOverlap]_vars

\* operation p had a command that is not openBox run in this step
Ran(p) ==
  /\ queue # <<>> /\ Head(queue) = p
  /\ running[p].at \in Commands \ {"openBox"}
  /\ running'[p].at # running[p].at

(* C24: in every interleaving of two overlapping operations of the session     *)
(* that name different mailboxes, each operation's flag, copy, move, expunge   *)
(* and fetch commands run while the mailbox that operation named is the        *)
(* selected one.                                                               *)
C24_CommandsRunInOwnMailbox ==
  [][\A p \in Operations :
       (Ran(p) /\ \A q \in Operations \ {p} :
                    running[q].at # "none" /\ running[q].mailbox # running[p].mailbox)
         => selected = running[p].mailbox]_vars

----------------------------------------------------------------------------
(* list_all_emails: the page shown *)

\* the 1-based positions of page `page` of `total` emails in pages of `size`
PagePositions(page, size, total) ==
  {i \in 1..total : (page - 1) * size + 1 <= i /\ i <= Min(page * size, total)}

(* C25: for every integer page and page_size, zero, negative and out of range  *)
(* included, list_all_emails shows exactly the emails at the 1-based positions *)
(* (page-1)*size+1 .. min(page*size, total), where size is min(page_size or    *)
(* 50, 100) and page defaults to 1, or, when that range is empty, shows no     *)
(* email and answers "No emails found on page"; it never shows an email of     *)
(* another position.                                                           *)
C25_PageShowsItsPositions ==
  (call.tool = "list_all_emails" /\ call.given
     /\ TagOf(response) \in {"Page", "No emails found on page"})
    => LET all == Ascending(msgs[OrInbox(call.args.mailbox)])
           size == CappedPageSize(call.args.page_size)
           page == IF call.args.page = 0 THEN DefaultPage ELSE call.args.page
           positions == Ascending(PagePositions(page, size, Len(all)))
       IN IF positions = <<>> THEN TagOf(response) = "No emails found on page"
          ELSE /\ TagOf(response) = "Page"
               /\ response.content[1].text.shown
                    = [k \in 1..Len(positions) |-> all[positions[k]]]

----------------------------------------------------------------------------
(* search_emails: the filters of its schema *)

\* message u of mailbox m passes each filter the arguments hold
Passes(m, u, args) ==
  /\ args.unreadOnly => SeenFlag \notin flags[m][u]
  /\ Field(args, "from") # JsUndefined => Contains(Envelope(u).from, args.from.s)
  /\ Field(args, "to") # JsUndefined => Contains(Envelope(u).to, args.to.s)
  /\ Field(args, "subject") # JsUndefined => Contains(Envelope(u).subject, args.subject.s)
  /\ Field(args, "body") # JsUndefined => Contains(Envelope(u).body, args.body.s)
  /\ Field(args, "sinceDays") # JsUndefined => Envelope(u).date >= DaysAgo(args.sinceDays.n)
  /\ Field(args, "beforeDays") # JsUndefined => Envelope(u).date < DaysAgo(args.beforeDays.n)
  /\ Field(args, "hasAttachments") = JsBool(TRUE) => HasAttachment(u)

(* C26: every filter declared in the schema of search_emails constrains the    *)
(* result: each email shown passes each filter the call holds; in particular   *)
(* a search with hasAttachments: true shows only emails that have an           *)
(* attachment.                                                                 *)
C26_EveryFilterConstrains ==
  (call.tool = "search_emails" /\ call.given /\ TagOf(response) = "Found emails")
    => \A u \in Range(response.content[1].text.shown) :
         Passes(OrInbox(call.args.mailbox), u, call.args)

====
